---------------------------- MODULE Spec2Model ----------------------------
(***************************************************************************)
(* Debate orchestration engine of Inclusive_Urban_Sim-Inha.                *)
(*                                                                         *)
(*   - the LLM invocation gateway: BaseLLM.chat_with_retry                 *)
(*     (src/llm_api/base.py) and call_llm (src/llm_api/__init__.py);       *)
(*   - the per-agent response parsers (src/debate/parser.py);              *)
(*   - the per-agent phase controller DebateSimulation.run                 *)
(*     (src/debate/simulation.py) with Agent, Memory and DebateLogger.     *)
(*                                                                         *)
(* Text is a sequence of tokens, so that stripping, truthiness and         *)
(* str.replace are computed and not assumed.  Korean dictionary keys are   *)
(* romanised: balhwa = "발화" (utterance), jimok = "지목" (nomination),    *)
(* ipjang = "입장" (stance), sangdae = "상대의견" (referenced code),       *)
(* baneung = "반응유형" (reaction type), saenggak = "생각" (thought),      *)
(* daesang = "대상" (nomination target), seosa = "서사" (narrative).       *)
(***************************************************************************)
EXTENDS Integers, Sequences, FiniteSets, TLC

VARIABLES
    gw,             \* one gateway invocation in progress (chat_with_retry / call_llm)
    ps,             \* one parser application: input text and result
    pc,             \* DebateSimulation.run: position of the controller thread
    round_num,      \* run(): round_num of the round loop (0 before, n_rounds+1 after)
    turn,           \* run(): turn of the speaking loop (index into resident_ids)
    idx,            \* run(): index of the post-barrier processing loop
    think_turn,     \* run(): think_turn counter of the current round
    speaker,        \* the controller's own blocking speaking call
    worker,         \* per participant: its task in the current thread pool
    results,        \* per participant: result collected from its future
    speech,         \* parsed / response_code of the utterance just spoken
    timeline,       \* Memory.timeline of every participant
    task,           \* Memory.task of every participant
    debate_buffer,  \* DebateLogger.debate_buffer
    think_buffer,   \* DebateLogger.think_buffer
    debate_file,    \* rows of set{set_id}_lv{level}_debate.csv
    think_file,     \* rows of set{set_id}_lv{level}_think.csv
    saves,          \* number of DebateLogger.save() calls made
    faults,         \* number of provider attempts that failed so far
    lv,             \* DebateSimulationLv1.run: the batch-mode controller
    initial_opinions, \* run(): the initial_opinions dict of either controller
    agent_list,     \* rows of set{set_id}_lv{level}_agent_list.csv
    memory,         \* one Memory object and its six slots
    client,         \* the provider modules' _client and the threads in _get_client
    cache           \* one GeminiLLM object's cache and the provider's caches

gwVars == <<gw>>
psVars == <<ps>>
lvVars == <<lv>>
memVars == <<memory>>
provVars == <<client, cache>>
listVars == <<initial_opinions, agent_list>>
runVars == <<pc, round_num, turn, idx, think_turn, speaker, worker, results,
             speech, timeline, task, debate_buffer, think_buffer,
             debate_file, think_file, saves, faults>>
vars == <<initial_opinions, agent_list, client, cache, memory, lv, gw, ps, pc, round_num, turn, idx, think_turn, speaker, worker,
          results, speech, timeline, task, debate_buffer, think_buffer,
          debate_file, think_file, saves, faults>>

-----------------------------------------------------------------------------
(* Bounds of the model *)

NAgents == 3
NRounds == 2
MaxFaults == 3

(* Program constants *)

DefaultMaxRetries == 3
RetryDelay == 1

-----------------------------------------------------------------------------
(* Small helpers *)

(* A delay that grows by one instead of doubling *)
OneMore(k) == k + 1

Pow2(k) == 2 ^ k

Range(s) == {s[i] : i \in 1..Len(s)}

-----------------------------------------------------------------------------
(* LLM invocation gateway.                                                 *)
(*                                                                         *)
(* One provider attempt (BaseLLM.chat / a provider's call function) ends   *)
(* in one of: a non-empty text, the empty string "", None, or an exception.*)
(* An exception carries the set of those substrings of its lower-cased     *)
(* message that call_llm looks for.                                        *)

NonRetryableMarks == {"auth", "invalid", "api key", "not found", "disabled"}

TextOutcome == [kind |-> "text", marks |-> {}]
EmptyOutcome == [kind |-> "empty", marks |-> {}]
NoneOutcome == [kind |-> "none", marks |-> {}]
RaiseOutcome(m) == [kind |-> "raise", marks |-> m]

ProviderOutcomes ==
    {TextOutcome, EmptyOutcome, NoneOutcome, RaiseOutcome({})}
        \cup {RaiseOutcome({m}) : m \in NonRetryableMarks}

(* `return None, {}` of chat_with_retry *)
NoneResult == [kind |-> "none", marks |-> {}]
Pending == [kind |-> "pending", marks |-> {}]

GwIdle == [fn |-> "idle", max_retries |-> 0, attempt |-> 0, tries |-> <<>>,
           sleeps |-> <<>>, status |-> "idle", value |-> Pending]

GwStart(fn, m) == [fn |-> fn, max_retries |-> m, attempt |-> 0, tries |-> <<>>,
                   sleeps |-> <<>>, status |-> "running", value |-> Pending]

(* `if result is not None` (base.py:34): "" is not None *)
IsNotNone(o) == o.kind \in {"text", "empty"}

(* One iteration of `for attempt in range(bound)` in chat_with_retry; the  *)
(* iteration that ends the loop also performs the `return None, {}`.       *)
ChatIter(g, o, bound) ==
    LET tried == [g EXCEPT !.tries = Append(@, o)]
        slept == IF g.attempt < g.max_retries - 1
                 THEN [tried EXCEPT !.sleeps = Append(@, Pow2(g.attempt))]
                 ELSE tried
    IN  IF o.kind # "raise" /\ IsNotNone(o)
        THEN [tried EXCEPT !.status = "returned", !.value = o]
        ELSE IF g.attempt + 1 < bound
             THEN [slept EXCEPT !.attempt = @ + 1]
             ELSE [slept EXCEPT !.attempt = @ + 1,
                                !.status = "returned", !.value = NoneResult]

ChatWithRetryIterOver(g, o) == ChatIter(g, o, g.max_retries + 1)

ChatWithRetryIter(g, o) == ChatIter(g, o, g.max_retries)

(* `any(x in error_str for x in [...])` (__init__.py:296-297) *)
IsNonRetryable(marks) == marks \cap NonRetryableMarks # {}

(* What the body of call_llm's try block does with the provider's value:   *)
(* len(response) raises TypeError on None, whose message holds no marker.  *)
CallTry(o) == IF o.kind = "none" THEN RaiseOutcome({}) ELSE o

(* One iteration of the retry loop of call_llm; the iteration that ends    *)
(* the loop also performs the `raise last_exception`.                      *)
CallIter(g, o, bound) ==
    LET r == CallTry(o)
        tried == [g EXCEPT !.tries = Append(@, o)]
        slept == IF g.attempt < g.max_retries - 1
                 THEN [tried EXCEPT !.sleeps =
                                      Append(@, RetryDelay * Pow2(g.attempt))]
                 ELSE tried
    IN  IF r.kind # "raise"
        THEN [tried EXCEPT !.status = "returned", !.value = r]
        ELSE IF IsNonRetryable(r.marks)
             THEN [tried EXCEPT !.status = "raised", !.value = r]
             ELSE IF g.attempt + 1 < bound
                  THEN [slept EXCEPT !.attempt = @ + 1]
                  ELSE [slept EXCEPT !.attempt = @ + 1,
                                     !.status = "raised", !.value = r]

CallLlmIter(g, o) == CallIter(g, o, g.max_retries)

ChatWithRetry ==
    /\ gw.fn = "chat_with_retry"
    /\ gw.status = "running"
    /\ \E o \in ProviderOutcomes : gw' = ChatWithRetryIter(gw, o)
    /\ UNCHANGED <<listVars, provVars, memVars, lvVars, psVars, runVars>>

CallLlm ==
    /\ gw.fn = "call_llm"
    /\ gw.status = "running"
    /\ \E o \in ProviderOutcomes : gw' = CallLlmIter(gw, o)
    /\ UNCHANGED <<listVars, provVars, memVars, lvVars, psVars, runVars>>

-----------------------------------------------------------------------------
(* Response texts and JSON values.                                         *)
(*                                                                         *)
(* A Python/JSON value is a record tagged by t.  A str is a sequence of    *)
(* tokens (" " is the space token).  A response text is                    *)
(*   pre   text before the first fence ("" or "prose"),                    *)
(*   open  the opening fence: "" (none), "FENCE" (three backticks),        *)
(*         "FENCEjson" (with the json tag), "FENCEjs" (another tag),       *)
(*   body  the JSON document between the fences, or Garbage,               *)
(*   close the closing fence ("" or "FENCE").                              *)

Absent == [t |-> "absent"]          \* key not in the dict
JNull == [t |-> "null"]             \* None / null
JNum == [t |-> "num"]
JStr(s) == [s |-> s, t |-> "str"]
JList(l) == [l |-> l, t |-> "list"]
JDict(d) == [d |-> d, t |-> "dict"]
Garbage == [t |-> "garbage"]        \* text that is no JSON document

(* {"대상": d, "입장": i} *)
Nomination(d, i) == JDict([daesang |-> d, ipjang |-> i])

Keys == {"balhwa", "jimok", "ipjang", "sangdae", "baneung", "saenggak",
         "resident_id", "seosa",
         "overall_stance", "reactions", "my_feeling", "agree_level"}

JObject(f) == [o |-> f, t |-> "object"]

NoFields == [k \in Keys |-> Absent]

NoneResponse == [kind |-> "None"]
Text(pre, open, body, close) ==
    [kind |-> "text", pre |-> pre, open |-> open, body |-> body, close |-> close]

(* A str holding the whole response text *)
Raw(response) == [raw |-> response, t |-> "str"]

(* "[응답 없음]" *)
NoResponseText == JStr(<<"[no response]">>)
(* "무관심" *)
Mugwansim == JStr(<<"mugwansim">>)

_strip_nothing(text) == text

(* _strip_markdown on a str (parser.py:18-23): the cleaned text *)
_strip_markdown(text) ==
    IF text.pre = "" /\ text.open # ""          \* text.startswith(FENCE)
    THEN [text EXCEPT !.open = IF @ \in {"FENCE", "FENCEjson"} THEN "" ELSE "js",
                      !.close = ""]
    ELSE text

(* json.loads: the decoded value, or JSONDecodeError *)
json_loads(cleaned) ==
    IF cleaned.pre = "" /\ cleaned.open = "" /\ cleaned.close = ""
         /\ cleaned.body.t # "garbage"
    THEN [ok |-> TRUE, v |-> cleaned.body]
    ELSE [ok |-> FALSE, v |-> Garbage]

(* parsed.get(key, default); AttributeError when parsed is no dict is      *)
(* decided by the callers through HasGet.                                  *)
HasGet(parsed) == parsed.t = "object"
Get(parsed, key, default) ==
    IF parsed.o[key] = Absent THEN default ELSE parsed.o[key]

Returned(out) == [status |-> "returned", out |-> out]
Raised(exc) == [status |-> "raised", out |-> exc]

(* bool(v) of a str *)
Truthy(v) == v.s # <<>>

NormaliseJimokBare(parsed) ==
    LET jimok_raw == Get(parsed, "jimok", JList(<<>>))
    IN  IF jimok_raw.t = "str" /\ Truthy(jimok_raw)
        THEN <<Nomination(jimok_raw, JNull)>>
        ELSE IF jimok_raw.t = "list" THEN jimok_raw.l
        ELSE <<>>

(* parser.py:50-62: normalise 지목 to a list *)
NormaliseJimok(parsed) ==
    LET jimok_raw == Get(parsed, "jimok", JList(<<>>))
    IN  IF jimok_raw.t = "null" THEN <<>>
        ELSE IF jimok_raw.t = "str"
             THEN IF Truthy(jimok_raw)
                  THEN <<Nomination(jimok_raw, Get(parsed, "ipjang", JNull))>>
                  ELSE <<>>
        ELSE IF jimok_raw.t = "list" THEN jimok_raw.l
        ELSE <<>>

parse_response(response) ==
    IF response = NoneResponse
    THEN Returned([balhwa |-> NoResponseText, jimok |-> <<>>])
    ELSE LET default == [balhwa |-> Raw(response), jimok |-> <<>>]
             decoded == json_loads(_strip_markdown(response))
             parsed == decoded.v
         IN  IF ~decoded.ok THEN Returned(default)
             ELSE IF ~HasGet(parsed) THEN Raised("AttributeError")
             ELSE Returned([balhwa |-> Get(parsed, "balhwa", Raw(response)),
                            jimok |-> NormaliseJimok(parsed)])

parse_think(response) ==
    IF response = NoneResponse
    THEN Returned([sangdae |-> JNull, baneung |-> JNull,
                   saenggak |-> NoResponseText])
    ELSE LET default == [sangdae |-> JNull, baneung |-> JNull,
                         saenggak |-> Raw(response)]
             decoded == json_loads(_strip_markdown(response))
             parsed == decoded.v
         IN  IF ~decoded.ok THEN Returned(default)
             ELSE IF ~HasGet(parsed) THEN Raised("AttributeError")
             ELSE Returned([sangdae |-> Get(parsed, "sangdae", JNull),
                            baneung |-> Get(parsed, "baneung", JNull),
                            saenggak |-> Get(parsed, "saenggak", Raw(response))])

(* str.replace(" ", "") *)
RemoveSpaces(v) == JStr(SelectSeq(v.s, LAMBDA c : c # " "))

parse_initial_opinion(response) ==
    IF response = NoneResponse
    THEN Returned([ipjang |-> Mugwansim, saenggak |-> NoResponseText])
    ELSE LET default == [ipjang |-> Mugwansim, saenggak |-> Raw(response)]
             decoded == json_loads(_strip_markdown(response))
             parsed == decoded.v
         IN  IF ~decoded.ok THEN Returned(default)
             ELSE IF ~HasGet(parsed) THEN Raised("AttributeError")
             ELSE LET ipjang == Get(parsed, "ipjang", Mugwansim)
                  IN  IF ipjang.t # "str" THEN Raised("AttributeError")
                      ELSE Returned(
                             [ipjang |-> RemoveSpaces(ipjang),
                              saenggak |-> Get(parsed, "saenggak", Raw(response))])

-----------------------------------------------------------------------------
(* Parser applications: one input text, one of the three per-agent parsers *)

Wrappers ==
    { [pre |-> "", open |-> "", close |-> ""],
      [pre |-> "", open |-> "FENCE", close |-> "FENCE"],
      [pre |-> "", open |-> "FENCEjson", close |-> "FENCE"],
      [pre |-> "", open |-> "FENCEjs", close |-> "FENCE"],
      [pre |-> "", open |-> "FENCEjson", close |-> ""],
      [pre |-> "prose", open |-> "FENCEjson", close |-> "FENCE"] }

SpeechFields ==
    { [NoFields EXCEPT !["balhwa"] = b, !["jimok"] = j, !["ipjang"] = i] :
        b \in {Absent, JStr(<<"hello">>)},
        j \in {Absent, JNull, JNum, JStr(<<>>), JStr(<<"resident_05">>),
               JList(<<>>),
               JList(<<Nomination(JStr(<<"resident_05">>), JStr(<<"gonggam">>))>>),
               Nomination(JStr(<<"resident_05">>), JStr(<<"gonggam">>))},
        i \in {Absent, JNull, JStr(<<"gonggam">>)} }

ThinkFields ==
    { [NoFields EXCEPT !["sangdae"] = c, !["baneung"] = r, !["saenggak"] = g] :
        c \in {Absent, JNull, JStr(<<"resident_01_r1_03_r">>)},
        r \in {Absent, JStr(<<"gonggam">>)},
        g \in {Absent, JStr(<<"hmm">>)} }

OpinionFields ==
    { [NoFields EXCEPT !["ipjang"] = i, !["saenggak"] = g] :
        i \in {Absent, JNull, JNum, JStr(<<"chanseong">>),
               JStr(<<"maeu", " ", "chanseong">>)},
        g \in {Absent, JStr(<<"hmm">>)} }

(* JSON numbers with their value: an integer, and a real number given by  *)
(* its integer part and its first decimal                                  *)
JInt(n) == [n |-> n, t |-> "int"]
JReal(whole, tenth) == [whole |-> whole, tenth |-> tenth, t |-> "float"]

(* the reactions of a thinking output (THINKING_JSON_SCHEMA,               *)
(* cognition.py:44-57); the fields that are not enumerations are left out  *)
ReactionFields ==
    { [NoFields EXCEPT !["my_feeling"] = f, !["agree_level"] = l] :
        f \in {JStr(<<"worried">>), JStr(<<"sad">>)},
        l \in {JInt(3), JInt(9), JStr(<<"3">>), JStr(<<"high">>), JReal(2, 7)} }

ThinkingFields ==
    { [NoFields EXCEPT !["overall_stance"] = o, !["reactions"] = r] :
        o \in {Absent, JStr(<<"support">>), JStr(<<"agree">>), JInt(3)},
        r \in {Absent, JList(<<>>)}
                 \cup {JList(<<JObject(f)>>) : f \in ReactionFields} }

NonObjects == {JNull, JNum, JStr(<<"hello">>), JList(<<>>), JList(<<JNum>>)}

Bodies ==
    {Garbage} \cup NonObjects
        \cup {JObject(f) : f \in SpeechFields \cup ThinkFields \cup OpinionFields
                                   \cup ThinkingFields}

ParserInputs ==
    {NoneResponse}
        \cup {Text(w.pre, w.open, b, w.close) : w \in Wrappers, b \in Bodies}

NoResult == [status |-> "pending", out |-> JNull]

PsIdle == [fn |-> "idle", input |-> NoneResponse, result |-> NoResult]

ParseResponse ==
    /\ ps.fn = "none"
    /\ ps' = [ps EXCEPT !.fn = "parse_response",
                        !.result = parse_response(ps.input)]
    /\ UNCHANGED <<listVars, provVars, memVars, lvVars, gwVars, runVars>>

ParseThink ==
    /\ ps.fn = "none"
    /\ ps' = [ps EXCEPT !.fn = "parse_think",
                        !.result = parse_think(ps.input)]
    /\ UNCHANGED <<listVars, provVars, memVars, lvVars, gwVars, runVars>>

ParseInitialOpinion ==
    /\ ps.fn = "none"
    /\ ps' = [ps EXCEPT !.fn = "parse_initial_opinion",
                        !.result = parse_initial_opinion(ps.input)]
    /\ UNCHANGED <<listVars, provVars, memVars, lvVars, gwVars, runVars>>

-----------------------------------------------------------------------------
(* JSON parsing with repair (src/agents/cognition.py) *)

(* extract_json_from_text: the first fenced block of the text (the search  *)
(* is not anchored, and only "json" is taken as a language tag), else the  *)
(* span from the first "{" to the last "}", else the text itself.          *)
extract_json_from_text(text) ==
    IF text.open # "" /\ text.close # ""
    THEN Text("", IF text.open \in {"FENCE", "FENCEjson"} THEN "" ELSE "js",
              text.body, "")
    ELSE IF text.body.t = "object" THEN Text("", "", text.body, "")
    ELSE text

Parsed(v, n) == [status |-> "returned", out |-> v, repairs |-> n]
Failure(exc, n) == [status |-> "raised", out |-> exc, repairs |-> n]

(* A loop that goes through every attempt and returns the last repaired   *)
(* text that decodes                                                       *)
FixLoopToEnd(attempt, max_retries, fixes) ==
    LET good == {k \in (attempt + 1)..max_retries :
                    /\ fixes[k] # NoneResponse
                    /\ json_loads(extract_json_from_text(fixes[k])).ok}
        last == CHOOSE k \in good : \A j \in good : j <= k
    IN  IF good = {} THEN Failure("CognitionError", max_retries)
        ELSE Parsed(json_loads(extract_json_from_text(fixes[last])).v, last)

(* The `for attempt in range(max_retries)` loop of parse_json: fixes[k] is *)
(* what the k-th call_llm returns for the fix prompt, NoneResponse when it *)
(* raises; any exception leads to the next attempt.                        *)
RECURSIVE FixLoop(_, _, _)
FixLoop(attempt, max_retries, fixes) ==
    IF attempt >= max_retries THEN Failure("CognitionError", attempt)
    ELSE LET response == fixes[attempt + 1]
             fixed == json_loads(extract_json_from_text(response))
         IN  IF response # NoneResponse /\ fixed.ok
             THEN Parsed(fixed.v, attempt + 1)
             ELSE FixLoop(attempt + 1, max_retries, fixes)

(* parse_json (lines 181-219); re.search raises TypeError on None *)
parse_json(text, max_retries, fixes) ==
    IF text = NoneResponse THEN Failure("TypeError", 0)
    ELSE LET first == json_loads(extract_json_from_text(text))
         IN  IF first.ok THEN Parsed(first.v, 0)
             ELSE FixLoop(0, max_retries, fixes)

MaxRepairs == 2

FixResponses ==
    { NoneResponse,
      Text("", "", Garbage, ""),
      Text("", "FENCEjson", JObject(NoFields), "FENCE"),
      Text("", "FENCEjson",
           JObject([NoFields EXCEPT !["overall_stance"] = JStr(<<"support">>)]),
           "FENCE") }

(* text[:3000] (line 209) *)
TextLimit == 3000

(* len(text[:n]) of a text of `chars` characters *)
Slice(chars, n) == IF chars <= n THEN chars ELSE n

(* JSON_FIX_PROMPT.format(text=text[:3000]) (lines 134-138, 209): the      *)
(* text it quotes and how many of its characters                           *)
fix_prompt(text, chars) ==
    [template |-> "JSON_FIX_PROMPT", text |-> text,
     chars |-> Slice(chars, TextLimit)]

(* The questions of the call_llm calls of a parse_json that ended in       *)
(* `result` (line 212): the prompt is made of `text` in every attempt      *)
repair_calls(text, chars, result) ==
    [k \in 1..result.repairs |-> fix_prompt(text, chars)]

(* the lengths of a response text around the limit of the fix prompt *)
TextChars == {TextLimit - 1, TextLimit, TextLimit + 1}

ParseJson ==
    /\ ps.fn = "none"
    /\ \E max_retries \in 0..MaxRepairs, chars \in TextChars :
          \E fixes \in [1..max_retries -> FixResponses] :
             LET result == parse_json(ps.input, max_retries, fixes)
             IN  ps' = [fn |-> "parse_json", input |-> ps.input,
                        result |-> result, chars |-> chars,
                        max_retries |-> max_retries, fixes |-> fixes,
                        calls |-> repair_calls(ps.input, chars, result)]
    /\ UNCHANGED <<listVars, provVars, memVars, lvVars, gwVars, runVars>>

-----------------------------------------------------------------------------
(* Validation of the enumerations (src/agents/cognition.py:38-41, 226-289) *)

VALID_FEELINGS ==
    {JStr(<<w>>) : w \in {"worried", "relieved", "angry", "hopeful",
                          "indifferent", "empathetic"}}
VALID_STANCES ==
    {JStr(<<w>>) : w \in {"strong_support", "support", "neutral", "oppose",
                          "strong_oppose"}}
VALID_AGREE_LEVELS == 1..5

Digit(n) == CASE n = 1 -> "1" [] n = 2 -> "2" [] n = 3 -> "3" [] n = 7 -> "7"
              [] n = 9 -> "9" [] OTHER -> "0"

DigitValue(c) == CASE c = "1" -> 1 [] c = "2" -> 2 [] c = "3" -> 3
                   [] c = "7" -> 7 [] c = "9" -> 9 [] c = "0" -> 0
                   [] OTHER -> -1

Converted(v) == [ok |-> TRUE, v |-> v]
NotConverted == [ok |-> FALSE, v |-> JNull]

(* str(value): never raises *)
str(value) ==
    CASE value.t = "str" -> Converted(value)
      [] value.t = "int" -> Converted(JStr(<<Digit(value.n)>>))
      [] value.t = "float" ->
            Converted(JStr(<<Digit(value.whole), ".", Digit(value.tenth)>>))
      [] OTHER -> Converted(JStr(<<"repr", value.t>>))

(* int(value): the integer itself, a real number truncated, the number a   *)
(* numeral str spells; ValueError or TypeError otherwise                   *)
int(value) ==
    CASE value.t = "int" -> Converted(value.n)
      [] value.t = "float" -> Converted(value.whole)
      [] value.t = "str" ->
            IF Len(value.s) = 1 /\ DigitValue(value.s[1]) >= 0
            THEN Converted(DigitValue(value.s[1]))
            ELSE NotConverted
      [] OTHER -> NotConverted

(* validate_value (lines 226-249): the converted value, or CognitionError *)
validate_value(value, valid_set, convert_type) ==
    LET converted == IF convert_type = "int" THEN int(value) ELSE str(value)
    IN  IF ~converted.ok THEN NotConverted
        ELSE IF converted.v \notin valid_set THEN NotConverted
        ELSE converted

(* one ThinkingReaction of the loop of lines 271-280 *)
ThinkingReaction(r) ==
    IF r.o["my_feeling"] = Absent \/ r.o["agree_level"] = Absent
    THEN NotConverted                                   \* KeyError
    ELSE LET my_feeling == validate_value(r.o["my_feeling"], VALID_FEELINGS, "str")
             agree_level == validate_value(r.o["agree_level"],
                                           VALID_AGREE_LEVELS, "int")
         IN  IF my_feeling.ok /\ agree_level.ok
             THEN Converted([my_feeling |-> my_feeling.v,
                             agree_level |-> agree_level.v])
             ELSE NotConverted

(* dict_to_thinking_output (lines 256-289) of what parse_json returned     *)
(* after n repair calls: data.get of a value that is no dict is an         *)
(* AttributeError, a missing key and an invalid value a CognitionError     *)
dict_to_thinking_output(data, n) ==
    IF ~HasGet(data) THEN Failure("AttributeError", n)
    ELSE LET listed == Get(data, "reactions", JList(<<>>)).l
             reactions == [i \in 1..Len(listed) |-> ThinkingReaction(listed[i])]
             overall_stance ==
                 validate_value(data.o["overall_stance"], VALID_STANCES, "str")
         IN  IF \E i \in 1..Len(listed) : ~reactions[i].ok
             THEN Failure("CognitionError", n)
             ELSE IF data.o["overall_stance"] = Absent \/ ~overall_stance.ok
             THEN Failure("CognitionError", n)
             ELSE Parsed([reactions |-> [i \in 1..Len(listed) |-> reactions[i].v],
                          overall_stance |-> overall_stance.v], n)

(* lines 431-439 of generate_thinking on the response of its call_llm *)
generate_thinking(response, max_retries, fixes) ==
    LET parsed == parse_json(response, max_retries, fixes)
    IN  IF parsed.status = "raised" THEN parsed
        ELSE dict_to_thinking_output(parsed.out, parsed.repairs)

(* call_llm (line 432) returns a str or raises *)
GenerateThinking ==
    /\ ps.fn = "none"
    /\ ps.input # NoneResponse
    /\ \E max_retries \in 0..MaxRepairs :
          \E fixes \in [1..max_retries -> FixResponses] :
             ps' = [fn |-> "generate_thinking", input |-> ps.input,
                    result |-> generate_thinking(ps.input, max_retries, fixes),
                    max_retries |-> max_retries, fixes |-> fixes]
    /\ UNCHANGED <<listVars, provVars, memVars, lvVars, gwVars, runVars>>

-----------------------------------------------------------------------------
(* Lazy provider clients (src/llm_api/google.py, openai_api.py,            *)
(* anthropic_api.py): a module-level _client and _get_client, which        *)
(* threads may enter at the same time.  The interpreter may switch threads *)
(* between any two of its steps: the test of _client, the construction of  *)
(* the client, the assignment to _client and the final read of _client.    *)

Providers == {"google", "openai", "anthropic"}

NThreads == 2
MaxCalls == 2

Threads == 1..NThreads

(* is_model_enabled(provider) and the API key of the environment *)
Environments == {"ready", "disabled", "no key"}

NoObject == 0

ThreadIdle == [pc |-> "idle", provider |-> "google", new |-> NoObject,
               ret |-> NoObject, exc |-> "", calls |-> 0]

(* _client = None in every module; no client object made yet *)
NoClients ==
    [env |-> [p \in Providers |-> "ready"],
     _client |-> [p \in Providers |-> NoObject],
     made |-> [p \in Providers |-> 0],
     thread |-> [t \in Threads |-> ThreadIdle]]

(* a thread calls _get_client() of a provider module *)
GetClientCall(t) ==
    /\ client.thread[t].pc \in {"idle", "returned", "raised"}
    /\ client.thread[t].calls < MaxCalls
    /\ \E p \in Providers :
          client' = [client EXCEPT !.thread[t] =
                        [pc |-> "test", provider |-> p, new |-> NoObject,
                         ret |-> NoObject, exc |-> "", calls |-> @.calls + 1]]
    /\ UNCHANGED <<listVars, cache, memVars, lvVars, gwVars, psVars, runVars>>

(* `if _client is None:` and, inside it, the two checks that raise *)
GetClientTest(t) ==
    /\ client.thread[t].pc = "test"
    /\ LET p == client.thread[t].provider
       IN  client' = [client EXCEPT !.thread[t] =
              IF client._client[p] # NoObject THEN [@ EXCEPT !.pc = "return"]
              ELSE IF client.env[p] = "ready" THEN [@ EXCEPT !.pc = "construct"]
              ELSE [@ EXCEPT !.pc = "raised", !.exc = "ValueError"]]
    /\ UNCHANGED <<listVars, cache, memVars, lvVars, gwVars, psVars, runVars>>

(* genai.Client(api_key=api_key): a new client object is made *)
GetClientConstruct(t) ==
    /\ client.thread[t].pc = "construct"
    /\ LET p == client.thread[t].provider
       IN  client' = [client EXCEPT
              !.made[p] = @ + 1,
              !.thread[t] = [@ EXCEPT !.pc = "assign", !.new = client.made[p] + 1]]
    /\ UNCHANGED <<listVars, cache, memVars, lvVars, gwVars, psVars, runVars>>

(* `_client = ...`: the new object is stored in the module *)
GetClientAssign(t) ==
    /\ client.thread[t].pc = "assign"
    /\ LET p == client.thread[t].provider
       IN  client' = [client EXCEPT
              !._client[p] = client.thread[t].new,
              !.thread[t] = [@ EXCEPT !.pc = "return"]]
    /\ UNCHANGED <<listVars, cache, memVars, lvVars, gwVars, psVars, runVars>>

(* `return _client` *)
GetClientReturn(t) ==
    /\ client.thread[t].pc = "return"
    /\ LET p == client.thread[t].provider
       IN  client' = [client EXCEPT !.thread[t] =
              [@ EXCEPT !.pc = "returned", !.ret = client._client[p]]]
    /\ UNCHANGED <<listVars, cache, memVars, lvVars, gwVars, psVars, runVars>>

-----------------------------------------------------------------------------
(* The explicit cache of GeminiLLM (src/llm_api/gemini.py:34-76).  The     *)
(* provider names the caches it creates 1, 2, ...; a call to the provider  *)
(* may fail.                                                               *)

MaxOps == 4

(* self.cache_name = None, self.cached_content_hash = None *)
NoName == 0
NoHash == -1

(* system_content + "\n\n" + timeline_content *)
CachedContents == {"prefix", "prefix+turn", "other prefix"}

(* hash(content_to_cache): equal contents have equal hashes, and two       *)
(* contents may have the same hash                                         *)
hash(content_to_cache) ==
    CASE content_to_cache = "prefix" -> 1
      [] content_to_cache = "prefix+turn" -> 2
      [] OTHER -> 1

DeleteCall(name) == [call |-> "caches.delete", arg |-> name]
CreateCall(content) == [call |-> "caches.create", arg |-> content]

(* GeminiLLM.__init__ (lines 34-35) and a provider that holds no cache *)
NoCache ==
    [cache_name |-> NoName, cached_content_hash |-> NoHash,
     live |-> {}, issued |-> 0, calls |-> <<>>, op |-> "__init__",
     content |-> "", ret |-> FALSE, n |-> 0]

(* A delete_cache that forgets the handle and keeps the hash *)
delete_cache_keeping_hash(c, delete_ok) ==
    IF c.cache_name # NoName
    THEN [c EXCEPT !.calls = Append(@, DeleteCall(c.cache_name)),
                   !.live = IF delete_ok THEN @ \ {c.cache_name} ELSE @,
                   !.cache_name = NoName]
    ELSE c

(* delete_cache (lines 63-72): the exception of a failed deletion is       *)
(* logged and the handle and the hash are cleared all the same             *)
delete_cache(c, delete_ok) ==
    IF c.cache_name # NoName
    THEN [c EXCEPT !.calls = Append(@, DeleteCall(c.cache_name)),
                   !.live = IF delete_ok THEN @ \ {c.cache_name} ELSE @,
                   !.cache_name = NoName,
                   !.cached_content_hash = NoHash]
    ELSE c

(* create_cache (lines 37-61) *)
create_cache(c, content_to_cache, delete_ok, create_ok) ==
    LET content_hash == hash(content_to_cache)
    IN  IF c.cached_content_hash = content_hash
        THEN [c EXCEPT !.ret = FALSE]
        ELSE LET d == delete_cache(c, delete_ok)
                 called == [d EXCEPT !.calls = Append(@, CreateCall(content_to_cache))]
             IN  IF create_ok
                 THEN [called EXCEPT !.issued = @ + 1,
                                     !.live = @ \cup {d.issued + 1},
                                     !.cache_name = d.issued + 1,
                                     !.cached_content_hash = content_hash,
                                     !.ret = TRUE]
                 ELSE [called EXCEPT !.ret = FALSE]

(* refresh_cache (lines 74-76) *)
refresh_cache(c, content, delete_ok, create_ok) ==
    create_cache(c, content, delete_ok, create_ok)

(* the object as a method finds it: the calls of this method are recorded *)
Entered(op, content) ==
    [cache EXCEPT !.calls = <<>>, !.op = op, !.content = content, !.n = @ + 1]

CreateCache ==
    /\ cache.n < MaxOps
    /\ \E content \in CachedContents, delete_ok \in BOOLEAN, create_ok \in BOOLEAN :
          cache' = create_cache(Entered("create_cache", content), content,
                                delete_ok, create_ok)
    /\ UNCHANGED <<listVars, client, memVars, lvVars, gwVars, psVars, runVars>>

RefreshCache ==
    /\ cache.n < MaxOps
    /\ \E content \in CachedContents, delete_ok \in BOOLEAN, create_ok \in BOOLEAN :
          cache' = refresh_cache(Entered("refresh_cache", content), content,
                                 delete_ok, create_ok)
    /\ UNCHANGED <<listVars, client, memVars, lvVars, gwVars, psVars, runVars>>

DeleteCache ==
    /\ cache.n < MaxOps
    /\ \E delete_ok \in BOOLEAN :
          cache' = delete_cache(Entered("delete_cache", ""), delete_ok)
    /\ UNCHANGED <<listVars, client, memVars, lvVars, gwVars, psVars, runVars>>

-----------------------------------------------------------------------------
(* Agent memory (src/agent_api/memory.py).  simulation.py appends through  *)
(* memory.add_conversation(speaker, content) and memory.add_think(content);*)
(* they are the appends add_utterance and add_my_think of Memory.          *)

Agents == 1..NAgents

(* resident_ids = [p["resident_id"] for p in self.personas] *)
resident_ids == [i \in 1..NAgents |-> i]

every_id(speaker_id) == resident_ids

other_ids_last_first(speaker_id) ==
    LET ids == SelectSeq(resident_ids, LAMBDA aid : aid # speaker_id)
    IN  [i \in 1..Len(ids) |-> ids[Len(ids) + 1 - i]]

(* other_ids = [aid for aid in resident_ids if aid != speaker_id] *)
other_ids(speaker_id) == SelectSeq(resident_ids, LAMBDA aid : aid # speaker_id)

add_utterance(tl, speaker_id, content) ==
    Append(tl, [type |-> "utterance", speaker |-> speaker_id, content |-> content])

add_my_think_first(tl, content) ==
    <<[type |-> "my_think", content |-> content]>> \o tl

add_my_think(tl, content) ==
    Append(tl, [type |-> "my_think", content |-> content])

(* The conversation history of a memory: its utterance entries, in order *)
conversationHistory(tl) == SelectSeq(tl, LAMBDA e : e.type = "utterance")

(* The private think trace of a memory *)
thinkTrace(tl) == SelectSeq(tl, LAMBDA e : e.type = "my_think")

add_my_utterance(tl, content) ==
    Append(tl, [type |-> "my_utterance", content |-> content])

(* Memory.__init__ (lines 10-27) *)
Memory(system_context, debate_rule, local_context, persona) ==
    [system_context |-> system_context, debate_rule |-> debate_rule,
     local_context |-> local_context, persona |-> persona,
     timeline |-> <<>>, task |-> ""]

(* no Memory object is followed *)
NoMemory == Memory("", "", "", "")

(* One Memory object and a client that calls its methods in any order *)
MaxTimeline == 3

Contents == {JStr(<<"hello">>), JStr(<<"hmm">>)}

AddUtterance ==
    /\ Len(memory.timeline) < MaxTimeline
    /\ \E speaker_name \in Agents, content \in Contents :
          memory' = [memory EXCEPT
                        !.timeline = add_utterance(@, speaker_name, content)]
    /\ UNCHANGED <<listVars, provVars, lvVars, gwVars, psVars, runVars>>

AddMyUtterance ==
    /\ Len(memory.timeline) < MaxTimeline
    /\ \E content \in Contents :
          memory' = [memory EXCEPT !.timeline = add_my_utterance(@, content)]
    /\ UNCHANGED <<listVars, provVars, lvVars, gwVars, psVars, runVars>>

AddMyThink ==
    /\ Len(memory.timeline) < MaxTimeline
    /\ \E content \in Contents :
          memory' = [memory EXCEPT !.timeline = add_my_think(@, content)]
    /\ UNCHANGED <<listVars, provVars, lvVars, gwVars, psVars, runVars>>

(* Memory.set_task (lines 41-43) *)
SetTask ==
    /\ \E new_task \in {"speak_task", "think_task"} :
          memory' = [memory EXCEPT !.task = new_task]
    /\ UNCHANGED <<listVars, provVars, lvVars, gwVars, psVars, runVars>>

-----------------------------------------------------------------------------
(* Run logger (src/debate/logger.py) *)

(* f"{turn:02d}" *)
Pad2(n) == IF n < 10 THEN <<"0", ToString(n)>> ELSE <<ToString(n)>>

(* f"{agent_id}_r{round}_{turn:02d}_{output_type}" *)
generate_code(agent_id, round, trn, output_type) ==
    <<"resident_", ToString(agent_id), "_r", ToString(round), "_">>
        \o Pad2(trn) \o <<"_", output_type>>

log_debate(buf, round, trn, agent_id, balhwa, jimok, ipjang) ==
    Append(buf, [code |-> generate_code(agent_id, round, trn, "r"),
                 round |-> round, turn |-> trn, agent_id |-> agent_id,
                 balhwa |-> balhwa, jimok |-> jimok, ipjang |-> ipjang])

log_think(buf, round, trn, agent_id, think_type, sangdae, saenggak) ==
    Append(buf, [code |-> generate_code(agent_id, round, trn, "t"),
                 round |-> round, turn |-> trn, agent_id |-> agent_id,
                 think_type |-> think_type, sangdae |-> sangdae,
                 saenggak |-> saenggak])

AppendedFile(file, buffer) == file \o buffer

(* DebateLogger.save: each file is rewritten from its buffer, when the     *)
(* buffer is not empty.                                                    *)
SavedFile(file, buffer) == IF buffer # <<>> THEN buffer ELSE file

saveNothing ==
    /\ UNCHANGED <<debate_file, think_file>>
    /\ saves' = saves + 1

save ==
    /\ debate_file' = SavedFile(debate_file, debate_buffer)
    /\ think_file' = SavedFile(think_file, think_buffer)
    /\ saves' = saves + 1

-----------------------------------------------------------------------------
(* Model calls of the run.  Agent.respond sets the task, builds the prompt *)
(* from the memory and calls chat_with_retry; the controller uses the text *)
(* of the result.  Each provider attempt of a call is one step.            *)

(* self.llm.chat_with_retry(prompt_data): max_retries takes its default *)
chat_with_retry == GwStart("chat_with_retry", DefaultMaxRetries)

Timeout == RaiseOutcome({})

(* an authentication error of the provider: its message holds "auth" *)
AuthFailure == RaiseOutcome({"auth"})

(* What a provider attempt of the run may end in *)
RunOutcomes == {TextOutcome, Timeout, AuthFailure}

Failed(o) == IF o.kind = "text" THEN 0 ELSE 1

(* The well-formed text the model returns for the task of a phase *)
Utt(r, q) == JStr(<<"utt", ToString(r), ToString(q)>>)
Thought(r, k, a) == JStr(<<"thought", ToString(r), ToString(k), ToString(a)>>)

SpeechText(r, q) ==
    Text("", "", JObject([NoFields EXCEPT !["balhwa"] = Utt(r, q),
                                          !["jimok"] = JNull,
                                          !["ipjang"] = JStr(<<"chanseong">>)]), "")

ThinkText(code, r, k, a) ==
    Text("", "", JObject([NoFields EXCEPT !["sangdae"] = JStr(code),
                                          !["saenggak"] = Thought(r, k, a)]), "")

ReflectText(r, a) ==
    Text("", "", JObject([NoFields EXCEPT !["saenggak"] = Thought(r, 0, a)]), "")

OpinionText(r, a) ==
    Text("", "", JObject([NoFields EXCEPT !["ipjang"] = JStr(<<"chanseong">>),
                                          !["saenggak"] = Thought(r, 0, a)]), "")

NarrativeText == Text("", "", Garbage, "")

(* The value of a response the controller uses unparsed *)
PyValue(response) == IF response = NoneResponse THEN JNull ELSE Raw(response)

(* d[key] of a dict the parser returned: KeyError when the key is absent.  *)
(* parse_response returns no "입장" key, so parsed["입장"]                 *)
(* (simulation.py:311) finds none; the record is kept with KeyError in     *)
(* that column so that the turns after it can be followed.                 *)
KeyError == [t |-> "KeyError"]
Subscript(d, key) == IF key \in DOMAIN d THEN d[key] ELSE KeyError

(* the response of a call: the text of a success, None otherwise *)
ResponseOf(g, text) == IF g.value.kind = "text" THEN text ELSE NoneResponse

(* A call of Agent.respond: seen is the timeline the prompt was built      *)
(* from, g the chat_with_retry invocation, out what the task returned.     *)
Idle == [st |-> "idle", seen |-> <<>>, g |-> GwIdle, out |-> NoResult]
Queued == [st |-> "queued", seen |-> <<>>, g |-> GwIdle, out |-> NoResult]
Running(tl) == [st |-> "running", seen |-> tl, g |-> chat_with_retry,
                out |-> NoResult]
Finished(out) == [st |-> "finished", seen |-> <<>>, g |-> GwIdle, out |-> out]

(* The batch-mode controller before its run *)
LvIdle == [pc |-> "idle", round_num |-> 0, idx |-> 1, calls |-> <<>>,
           speeches |-> <<>>, parsed |-> <<>>, timeline |-> <<>>]

NoSpeech == [parsed |-> [balhwa |-> JNull, jimok |-> <<>>], code |-> <<>>]

WaitPcs == {"narrative_wait", "initial_wait", "react_wait", "reflect_wait",
            "final_wait"}

speaker_id == resident_ids[turn]

-----------------------------------------------------------------------------
(* The per-participant table (src/debate/simulation.py:442-501 and         *)
(* src/debate/simulation_lv1.py:376-435).  A dict of opinions keyed by     *)
(* resident id is a function on Agents, Absent where the key is missing;   *)
(* None and the empty dict are both falsy and are the function that is     *)
(* Absent everywhere.                                                      *)

NoOpinions == [a \in Agents |-> Absent]

(* "initial_stance": "", "final_stance": "" *)
EmptyStance == JStr(<<>>)

(* `if opinions and resident_id in opinions: row[...] = opinions[id]["입장"]` *)
stance_of(opinions, a) ==
    IF opinions[a] # Absent THEN opinions[a].ipjang ELSE EmptyStance

(* _save_agent_list: every row is built anew and the file is overwritten;  *)
(* call names the call site that wrote it                                  *)
_save_agent_list(call, initial, final) ==
    [call |-> call,
     rows |-> [a \in Agents |->
                 [initial_stance |-> stance_of(initial, a),
                  final_stance |-> stance_of(final, a)]]]

(* no file of the table yet *)
NoAgentList == [call |-> "none",
                rows |-> [a \in Agents |->
                            [initial_stance |-> EmptyStance,
                             final_stance |-> EmptyStance]]]

NoTable == initial_opinions = NoOpinions /\ agent_list = NoAgentList

(* DebateSimulation.__init__ (line 176): the table with the personas only *)
PersonasTable ==
    /\ initial_opinions = NoOpinions
    /\ agent_list = _save_agent_list("personas", NoOpinions, NoOpinions)

-----------------------------------------------------------------------------
(* DebateSimulation.run (src/debate/simulation.py:178-440) *)

logVars == <<debate_buffer, think_buffer, debate_file, think_file, saves>>
loopVars == <<round_num, turn, idx, think_turn>>

(* The task text set by Agent.respond in the phase at pc *)
TaskOf(p) ==
    CASE p = "narrative_wait" -> <<"narrative_task", <<>> >>
      [] p = "initial_wait" -> <<"initial_task", <<>> >>
      [] p = "react_wait" -> <<"think_task", speech.code>>
      [] p = "reflect_wait" -> <<"reflection_task", <<ToString(round_num)>> >>
      [] p = "final_wait" -> <<"final_task", <<>> >>
      [] OTHER -> <<"speak_task", <<>> >>

(* The well-formed text the model returns to participant a in the phase *)
WellFormed(p, a) ==
    CASE p = "narrative_wait" -> NarrativeText
      [] p = "initial_wait" -> OpinionText(0, a)
      [] p = "react_wait" -> ThinkText(speech.code, round_num, turn, a)
      [] p = "reflect_wait" -> ReflectText(round_num, a)
      [] p = "final_wait" -> OpinionText(NRounds + 1, a)
      [] OTHER -> SpeechText(round_num, a)

(* What a pool task returns: generate_narrative returns the response,      *)
(* form_initial_opinion / form_final_opinion parse_initial_opinion of it,  *)
(* do_think / do_reflect parse_think of it.                                *)
TaskResult(p, response) ==
    CASE p = "narrative_wait" -> Returned(PyValue(response))
      [] p \in {"initial_wait", "final_wait"} -> parse_initial_opinion(response)
      [] OTHER -> parse_think(response)

(* executor.submit of one task per id of ids *)
Submit(from, ids, to) ==
    /\ pc = from
    /\ worker' = [a \in Agents |-> IF a \in Range(ids) THEN Queued ELSE Idle]
    /\ pc' = to
    /\ UNCHANGED <<speaker, results, speech, timeline, task, faults>>
    /\ UNCHANGED <<listVars, provVars, memVars, lvVars, gwVars, psVars, logVars, loopVars>>

(* A pool thread enters Agent.respond: set_task, build_prompt *)
WorkerStart(a) ==
    /\ pc \in WaitPcs
    /\ worker[a].st = "queued"
    /\ task' = [task EXCEPT ![a] = TaskOf(pc)]
    /\ worker' = [worker EXCEPT ![a] = Running(timeline[a])]
    /\ UNCHANGED <<pc, speaker, results, speech, timeline, faults>>
    /\ UNCHANGED <<listVars, provVars, memVars, lvVars, gwVars, psVars, logVars, loopVars>>

(* One provider attempt of the pool thread's chat_with_retry; when the    *)
(* gateway returns, the task parses the response and returns.  The attempt *)
(* ends in one of `outcomes`.                                              *)
WorkerChatFrom(a, outcomes) ==
    /\ pc \in WaitPcs
    /\ worker[a].st = "running"
    /\ \E o \in outcomes :
          LET g == ChatWithRetryIter(worker[a].g, o)
              response == ResponseOf(g, WellFormed(pc, a))
          IN  /\ faults + Failed(o) <= MaxFaults
              /\ faults' = faults + Failed(o)
              /\ worker' = [worker EXCEPT ![a] =
                    IF g.status = "running" THEN [@ EXCEPT !.g = g]
                    ELSE Finished(TaskResult(pc, response))]
    /\ UNCHANGED <<pc, speaker, results, speech, timeline, task>>
    /\ UNCHANGED <<listVars, provVars, memVars, lvVars, gwVars, psVars, logVars, loopVars>>

WorkerChatFailing(a) == WorkerChatFrom(a, {Timeout})

WorkerChat(a) == WorkerChatFrom(a, RunOutcomes)

Submitted == {a \in Agents : worker[a].st # "idle"}

(* A controller that leaves the pool as soon as one future is done *)
JoinAtFirst(from, to) ==
    /\ pc = from
    /\ \E a \in Submitted : worker[a].st = "finished"
    /\ results' = [a \in Agents |-> worker[a].out]
    /\ worker' = [a \in Agents |->
                    IF worker[a].st = "finished" THEN Idle ELSE worker[a]]
    /\ pc' = IF \E a \in Submitted : worker[a].out.status = "raised"
             THEN "aborted" ELSE to
    /\ idx' = 1
    /\ UNCHANGED <<speaker, speech, timeline, task, faults>>
    /\ UNCHANGED <<listVars, provVars, memVars, lvVars, gwVars, psVars, logVars, round_num, turn, think_turn>>

(* The as_completed loop and the exit of the `with` block: every future is *)
(* done; future.result() re-raises what a task raised.                     *)
Join(from, to) ==
    /\ pc = from
    /\ \A a \in Submitted : worker[a].st = "finished"
    /\ results' = [a \in Agents |-> worker[a].out]
    /\ worker' = [a \in Agents |-> Idle]
    /\ pc' = IF \E a \in Submitted : worker[a].out.status = "raised"
             THEN "aborted" ELSE to
    /\ idx' = 1
    /\ UNCHANGED <<speaker, speech, timeline, task, faults>>
    /\ UNCHANGED <<listVars, provVars, memVars, lvVars, gwVars, psVars, logVars, round_num, turn, think_turn>>

NoResults == [a \in Agents |-> NoResult]

(* --- narrative (lines 207-236) --- *)

NarrativeSubmit == Submit("narrative_submit", resident_ids, "narrative_wait")

NarrativeJoin == Join("narrative_wait", "narrative_store")

NarrativeStoreInto(shared) ==
    /\ pc = "narrative_store"
    /\ LET resident_id == resident_ids[idx]
           narrative == results[resident_id].out
       IN  /\ timeline' = [a \in Agents |->
                  IF a = resident_id \/ shared
                  THEN add_my_think(timeline[a],
                                    [fmt |-> "narrative", arg |-> narrative])
                  ELSE timeline[a]]
           /\ think_buffer' = log_think(think_buffer, 0, idx, resident_id,
                                        "narrative", JNull, narrative)
    /\ IF idx < NAgents
       THEN idx' = idx + 1 /\ pc' = pc
       ELSE idx' = 1 /\ pc' = "narrative_save"
    /\ UNCHANGED <<speaker, worker, results, speech, task, faults>>
    /\ UNCHANGED <<listVars, provVars, memVars, lvVars, gwVars, psVars, debate_buffer, debate_file, think_file,
                   saves, round_num, turn, think_turn>>

NarrativeStoreShared == NarrativeStoreInto(TRUE)

(* lines 219-234: memory.add_my_think and log_think of each narrative *)
NarrativeStore == NarrativeStoreInto(FALSE)

NarrativeSave ==
    /\ pc = "narrative_save"
    /\ save
    /\ results' = NoResults
    /\ pc' = "initial_submit"
    /\ UNCHANGED <<speaker, worker, speech, timeline, task, faults>>
    /\ UNCHANGED <<listVars, provVars, memVars, lvVars, gwVars, psVars, debate_buffer, think_buffer, loopVars>>

(* --- initial opinions (lines 247-282) --- *)

InitialSubmit == Submit("initial_submit", resident_ids, "initial_wait")

InitialJoin == Join("initial_wait", "initial_store")

InitialStore ==
    /\ pc = "initial_store"
    /\ LET resident_id == resident_ids[idx]
           opinion == results[resident_id].out
       IN  /\ timeline' = [timeline EXCEPT ![resident_id] =
                  add_my_think(@, [fmt |-> "initial",
                                   ipjang |-> opinion.ipjang,
                                   saenggak |-> opinion.saenggak])]
           /\ think_buffer' = log_think(think_buffer, 0, idx, resident_id,
                                        "initial", opinion.ipjang,
                                        opinion.saenggak)
    /\ IF idx < NAgents
       THEN idx' = idx + 1 /\ pc' = pc
       ELSE idx' = 1 /\ pc' = "initial_save"
    /\ UNCHANGED <<speaker, worker, results, speech, task, faults>>
    /\ UNCHANGED <<listVars, provVars, memVars, lvVars, gwVars, psVars, debate_buffer, debate_file, think_file,
                   saves, round_num, turn, think_turn>>

(* save and _save_agent_list(initial_opinions), then the round loop is     *)
(* entered: round_num = 1, think_turn = 1                                  *)
InitialSave ==
    /\ pc = "initial_save"
    /\ save
    /\ initial_opinions' = [a \in Agents |-> results[a].out]
    /\ agent_list' = _save_agent_list("initial", initial_opinions', NoOpinions)
    /\ results' = NoResults
    /\ pc' = "speak"
    /\ round_num' = 1
    /\ think_turn' = 1
    /\ turn' = 1
    /\ UNCHANGED <<speaker, worker, speech, timeline, task, faults, idx>>
    /\ UNCHANGED <<provVars, memVars, lvVars, gwVars, psVars, debate_buffer, think_buffer>>

(* --- speaking turn (lines 290-357) --- *)

(* speaker_agent.respond(task) is entered by the controller thread *)
SpeakStart ==
    /\ pc = "speak"
    /\ task' = [task EXCEPT ![speaker_id] = TaskOf(pc)]
    /\ speaker' = [speaker EXCEPT ![speaker_id] = Running(timeline[speaker_id])]
    /\ pc' = "speaking"
    /\ UNCHANGED <<worker, results, speech, timeline, faults>>
    /\ UNCHANGED <<listVars, provVars, memVars, lvVars, gwVars, psVars, logVars, loopVars>>

(* One provider attempt of the speaker's chat_with_retry; when the        *)
(* gateway returns: parse_response, log_debate (lines 298-312).            *)
SpeakChat ==
    /\ pc = "speaking"
    /\ \E o \in RunOutcomes :
          LET g == ChatWithRetryIter(speaker[speaker_id].g, o)
              response == ResponseOf(g, WellFormed(pc, speaker_id))
              res == parse_response(response)
              parsed == res.out
          IN  /\ faults + Failed(o) <= MaxFaults
              /\ faults' = faults + Failed(o)
              /\ speaker' = [speaker EXCEPT ![speaker_id] =
                    IF g.status = "running" THEN [@ EXCEPT !.g = g] ELSE Idle]
              /\ IF g.status = "running"
                 THEN UNCHANGED <<pc, debate_buffer, speech>>
                 ELSE IF res.status = "raised"
                 THEN /\ pc' = "aborted"
                      /\ UNCHANGED <<debate_buffer, speech>>
                 ELSE /\ pc' = "deliver"
                      /\ debate_buffer' =
                            log_debate(debate_buffer, round_num, turn, speaker_id,
                                       parsed.balhwa, parsed.jimok,
                                       Subscript(parsed, "ipjang"))
                      /\ speech' =
                            [parsed |-> parsed,
                             code |-> generate_code(speaker_id, round_num, turn, "r")]
    /\ UNCHANGED <<worker, results, timeline, task>>
    /\ UNCHANGED <<listVars, provVars, memVars, lvVars, gwVars, psVars, think_buffer, debate_file, think_file,
                   saves, loopVars>>

(* lines 317-320, the appends made for the participants of `to` *)
DeliverTo(to) ==
    /\ pc = "deliver"
    /\ timeline' = [other_id \in Agents |->
                      IF other_id \in to
                      THEN add_utterance(timeline[other_id], speaker_id,
                                         speech.parsed.balhwa)
                      ELSE timeline[other_id]]
    /\ pc' = "react_submit"
    /\ UNCHANGED <<speaker, worker, results, speech, task, faults>>
    /\ UNCHANGED <<listVars, provVars, memVars, lvVars, gwVars, psVars, logVars, loopVars>>

DeliverToAll == DeliverTo(Agents)

DeliverButLast == DeliverTo({other_id \in Agents :
                               other_id # speaker_id /\ other_id < NAgents})

(* for other_id in resident_ids: if other_id != speaker_id: ... *)
Deliver == DeliverTo({other_id \in Agents : other_id # speaker_id})

ReactSubmit == Submit("react_submit", other_ids(speaker_id), "react_wait")

ReactJoin == Join("react_wait", "react_store")

(* lines 343-354, the loop stopping after `last` entries of other_ids *)
ReactStoreUpTo(last) ==
    /\ pc = "react_store"
    /\ LET other_id == other_ids(speaker_id)[idx]
           think_parsed == results[other_id].out
       IN  /\ timeline' = [timeline EXCEPT ![other_id] =
                             add_my_think(@, think_parsed.saenggak)]
           /\ think_buffer' = log_think(think_buffer, round_num, think_turn,
                                        other_id, "reaction",
                                        think_parsed.sangdae,
                                        think_parsed.saenggak)
    /\ think_turn' = think_turn + 1
    /\ IF idx < last
       THEN idx' = idx + 1 /\ pc' = pc
       ELSE idx' = 1 /\ pc' = "turn_save"
    /\ UNCHANGED <<speaker, worker, results, speech, task, faults>>
    /\ UNCHANGED <<listVars, provVars, memVars, lvVars, gwVars, psVars, debate_buffer, debate_file, think_file,
                   saves, round_num, turn>>

ReactStoreFirstOnly == ReactStoreUpTo(1)

ReactStore == ReactStoreUpTo(Len(other_ids(speaker_id)))

(* line 357, then the next speaker or the reflection of the round; doSave  *)
(* tells whether the save is made.                                         *)
TurnSaveWith(doSave) ==
    /\ pc = "turn_save"
    /\ IF doSave THEN save
                 ELSE UNCHANGED <<debate_file, think_file, saves>>
    /\ results' = NoResults
    /\ IF turn < NAgents
       THEN turn' = turn + 1 /\ pc' = "speak"
       ELSE turn' = 1 /\ pc' = "reflect_submit"
    /\ UNCHANGED <<speaker, worker, speech, timeline, task, faults>>
    /\ UNCHANGED <<listVars, provVars, memVars, lvVars, gwVars, psVars, debate_buffer, think_buffer, round_num,
                   idx, think_turn>>

TurnNoSave == TurnSaveWith(FALSE)

TurnSave == TurnSaveWith(TRUE)

(* --- reflection (lines 368-396) --- *)

ReflectSubmit == Submit("reflect_submit", resident_ids, "reflect_wait")

ReflectJoin == Join("reflect_wait", "reflect_store")

ReflectStore ==
    /\ pc = "reflect_store"
    /\ LET resident_id == resident_ids[idx]
           reflection_parsed == results[resident_id].out
       IN  /\ timeline' = [timeline EXCEPT ![resident_id] =
                             add_my_think(@, reflection_parsed.saenggak)]
           /\ think_buffer' = log_think(think_buffer, round_num,
                                        think_turn + idx, resident_id,
                                        "reflection", JNull,
                                        reflection_parsed.saenggak)
    /\ IF idx < NAgents
       THEN idx' = idx + 1 /\ pc' = pc
       ELSE idx' = 1 /\ pc' = "reflect_save"
    /\ UNCHANGED <<speaker, worker, results, speech, task, faults>>
    /\ UNCHANGED <<listVars, provVars, memVars, lvVars, gwVars, psVars, debate_buffer, debate_file, think_file,
                   saves, round_num, turn, think_turn>>

(* line 396, then the next round (think_turn = 1) or the final opinions;  *)
(* n_rounds is the bound of `range(1, self.n_rounds + 1)`.                 *)
ReflectSaveOf(n_rounds) ==
    /\ pc = "reflect_save"
    /\ save
    /\ results' = NoResults
    /\ IF round_num < n_rounds
       THEN round_num' = round_num + 1 /\ think_turn' = 1 /\ pc' = "speak"
       ELSE UNCHANGED <<round_num, think_turn>> /\ pc' = "final_submit"
    /\ UNCHANGED <<speaker, worker, speech, timeline, task, faults, turn, idx>>
    /\ UNCHANGED <<listVars, provVars, memVars, lvVars, gwVars, psVars, debate_buffer, think_buffer>>

ReflectSaveOneMore == ReflectSaveOf(NRounds + 1)

ReflectSave == ReflectSaveOf(NRounds)

(* --- final opinions (lines 407-440) --- *)

FinalSubmit == Submit("final_submit", resident_ids, "final_wait")

FinalJoin == Join("final_wait", "final_store")

FinalStore ==
    /\ pc = "final_store"
    /\ LET resident_id == resident_ids[idx]
           opinion == results[resident_id].out
       IN  think_buffer' = log_think(think_buffer, NRounds + 1, idx,
                                     resident_id, "final", opinion.ipjang,
                                     opinion.saenggak)
    /\ IF idx < NAgents
       THEN idx' = idx + 1 /\ pc' = pc
       ELSE idx' = 1 /\ pc' = "final_save"
    /\ UNCHANGED <<speaker, worker, results, speech, timeline, task, faults>>
    /\ UNCHANGED <<listVars, provVars, memVars, lvVars, gwVars, psVars, debate_buffer, debate_file, think_file,
                   saves, round_num, turn, think_turn>>

(* save and _save_agent_list(initial_opinions, final_opinions) *)
FinalSave ==
    /\ pc = "final_save"
    /\ save
    /\ agent_list' = _save_agent_list("final", initial_opinions,
                                      [a \in Agents |-> results[a].out])
    /\ results' = NoResults
    /\ pc' = "done"
    /\ UNCHANGED <<initial_opinions, speaker, worker, speech, timeline, task, faults>>
    /\ UNCHANGED <<provVars, memVars, lvVars, gwVars, psVars, debate_buffer, think_buffer, loopVars>>

-----------------------------------------------------------------------------
(* Batch-mode parsers (src/debate/parser.py:151-269).  A dict keyed by     *)
(* resident id is a function on Agents, Absent where the key is missing;   *)
(* ids of no participant are never looked up and are left out.             *)

(* "resident_01", ... as they stand in a response *)
ResidentId(a) == <<"resident_", ToString(a)>>
Rid(a) == JStr(ResidentId(a))
IsResident(v) == \E a \in Agents : Rid(a) = v
AgentOf(v) == CHOOSE a \in Agents : Rid(a) = v

(* bool(v) of a decoded value *)
TruthyValue(v) ==
    CASE v.t = "null" -> FALSE
      [] v.t = "str" -> v.s # <<>>
      [] v.t = "list" -> v.l # <<>>
      [] OTHER -> TRUE

EmptyDict == [a \in Agents |-> Absent]

(* `if not isinstance(parsed, list)` *)
IsList(parsed) == parsed.t = "list"

(* the dict comprehension of parse_batch_narrative (lines 173-177) *)
RECURSIVE NarrativeItems(_, _)
NarrativeItems(items, acc) ==
    IF items = <<>> THEN Returned(acc)
    ELSE LET item == Head(items)
         IN  IF ~HasGet(item) THEN Raised("AttributeError")
             ELSE LET rid == Get(item, "resident_id", JNull)
                  IN  IF TruthyValue(rid) /\ IsResident(rid)
                      THEN NarrativeItems(Tail(items),
                             [acc EXCEPT ![AgentOf(rid)] =
                                            Get(item, "seosa", JStr(<<>>))])
                      ELSE NarrativeItems(Tail(items), acc)

parse_batch_narrative(response) ==
    IF response = NoneResponse THEN Returned(EmptyDict)
    ELSE LET decoded == json_loads(_strip_markdown(response))
         IN  IF ~decoded.ok THEN Returned(EmptyDict)
             ELSE IF ~IsList(decoded.v) THEN Returned(EmptyDict)
             ELSE NarrativeItems(decoded.v.l, EmptyDict)

(* the dict comprehension of parse_batch_opinion (lines 207-214) *)
RECURSIVE OpinionItems(_, _)
OpinionItems(items, acc) ==
    IF items = <<>> THEN Returned(acc)
    ELSE LET item == Head(items)
         IN  IF ~HasGet(item) THEN Raised("AttributeError")
             ELSE LET rid == Get(item, "resident_id", JNull)
                      ipjang == Get(item, "ipjang", Mugwansim)
                  IN  IF ~TruthyValue(rid) THEN OpinionItems(Tail(items), acc)
                      ELSE IF ipjang.t # "str" THEN Raised("AttributeError")
                      ELSE IF ~IsResident(rid) THEN OpinionItems(Tail(items), acc)
                      ELSE OpinionItems(Tail(items),
                             [acc EXCEPT ![AgentOf(rid)] =
                                [ipjang |-> RemoveSpaces(ipjang),
                                 saenggak |-> Get(item, "saenggak", JStr(<<>>))]])

parse_batch_opinion(response) ==
    IF response = NoneResponse THEN Returned(EmptyDict)
    ELSE LET decoded == json_loads(_strip_markdown(response))
         IN  IF ~decoded.ok THEN Returned(EmptyDict)
             ELSE IF ~IsList(decoded.v) THEN Returned(EmptyDict)
             ELSE OpinionItems(decoded.v.l, EmptyDict)

(* parse_batch_speech, lines 246-254: the entries of a 지목 list; ok is     *)
(* FALSE at the first entry that is no dict with "대상" (`return None`)     *)
RECURSIVE BatchJimok(_, _)
BatchJimok(l, acc) ==
    IF l = <<>> THEN [ok |-> TRUE, v |-> acc]
    ELSE LET j == Head(l)
         IN  IF j.t = "dict" /\ j.d.daesang # Absent
             THEN BatchJimok(Tail(l),
                    Append(acc, Nomination(j.d.daesang,
                                  IF j.d.ipjang = Absent THEN JStr(<<>>)
                                  ELSE j.d.ipjang)))
             ELSE [ok |-> FALSE, v |-> <<>>]

(* parse_batch_speech, lines 236-264: the loop over the items *)
RECURSIVE SpeechItems(_, _)
SpeechItems(items, parsed_items) ==
    IF items = <<>> THEN Returned(JList(parsed_items))
    ELSE LET item == Head(items)
         IN  IF ~HasGet(item) THEN Raised("AttributeError")
             ELSE LET resident_id == Get(item, "resident_id", JNull)
                      jimok_raw == Get(item, "jimok", JList(<<>>))
                      entries == IF jimok_raw.t = "list"
                                 THEN BatchJimok(jimok_raw.l, <<>>)
                                 ELSE [ok |-> TRUE, v |-> <<>>]
                      jimok == IF jimok_raw.t = "str" /\ Truthy(jimok_raw)
                               THEN <<Nomination(jimok_raw, JNull)>>
                               ELSE entries.v
                  IN  IF ~TruthyValue(resident_id)
                      THEN SpeechItems(Tail(items), parsed_items)
                      ELSE IF ~entries.ok THEN Returned(JNull)
                      ELSE SpeechItems(Tail(items),
                             Append(parsed_items,
                                    [resident_id |-> resident_id,
                                     balhwa |-> Get(item, "balhwa", JStr(<<>>)),
                                     jimok |-> jimok]))

(* Returns the list of speeches, or None (JNull) on a format error *)
parse_batch_speech(response) ==
    IF response = NoneResponse THEN Returned(JNull)
    ELSE LET decoded == json_loads(_strip_markdown(response))
         IN  IF ~decoded.ok THEN Returned(JNull)
             ELSE IF ~IsList(decoded.v) THEN Returned(JNull)
             ELSE SpeechItems(decoded.v.l, <<>>)

-----------------------------------------------------------------------------
(* Batch-mode run: DebateSimulationLv1.run (src/debate/simulation_lv1.py)  *)
(* with the DebateLogger of src/logger/logger.py.  One model call per      *)
(* phase returns an array with one item per participant.  log_debate is    *)
(* called without "입장" (simulation_lv1.py:259-269); the record is kept    *)
(* with that column Absent.                                                *)

(* _generate_code (src/logger/logger.py:47-49) *)
_generate_code(agent_id, round, trn, output_type) ==
    agent_id \o <<"_r", ToString(round), "_">> \o Pad2(trn) \o <<"_", output_type>>

(* DebateLogger.log_debate (src/logger/logger.py:74-106) *)
LvLogDebate(buf, round, trn, agent_id, balhwa, jimok, ipjang) ==
    Append(buf, [code |-> _generate_code(agent_id, round, trn, "r"),
                 round |-> round, turn |-> trn, agent_id |-> agent_id,
                 balhwa |-> balhwa, jimok |-> jimok, ipjang |-> ipjang])

(* DebateLogger.log_think (src/logger/logger.py:108-134) *)
LvLogThink(buf, round, trn, agent_id, think_type, sangdae, baneung, saenggak) ==
    Append(buf, [code |-> _generate_code(agent_id, round, trn, "t"),
                 round |-> round, turn |-> trn, agent_id |-> agent_id,
                 think_type |-> think_type, sangdae |-> sangdae,
                 baneung |-> baneung, saenggak |-> saenggak])

(* chat_with_retry run to its end on the outcomes of its attempts *)
RECURSIVE RunChat(_, _)
RunChat(g, script) ==
    IF g.status # "running" \/ script = <<>> THEN g
    ELSE RunChat(ChatWithRetryIter(g, Head(script)), Tail(script))

CallScripts ==
    { <<TextOutcome>>,
      <<Timeout, TextOutcome>>,
      [i \in 1..DefaultMaxRetries |-> Timeout] }

(* _call_llm (lines 142-166): the response of chat_with_retry *)
_call_llm(script, text) == ResponseOf(RunChat(chat_with_retry, script), text)

(* The arrays the model answers with *)
Array(items) == Text("", "", JList(items), "")
Fenced(items) == Text("", "FENCEjson", JList(items), "FENCE")

NarrativeItem(a) ==
    JObject([NoFields EXCEPT !["resident_id"] = Rid(a),
                             !["seosa"] = JStr(<<"story", ToString(a)>>)])

OpinionItem(a) ==
    JObject([NoFields EXCEPT !["resident_id"] = Rid(a),
                             !["ipjang"] = JStr(<<"chanseong">>),
                             !["saenggak"] = JStr(<<"because", ToString(a)>>)])

SpeechItem(r, a, jimok) ==
    JObject([NoFields EXCEPT !["resident_id"] = Rid(a),
                             !["balhwa"] = Utt(r, a),
                             !["jimok"] = jimok])

GoodJimok == JList(<<Nomination(Rid(1), JStr(<<"gonggam">>))>>)
BadJimok == JList(<<Rid(1)>>)

NarrativeResponses ==
    { Fenced([a \in 1..NAgents |-> NarrativeItem(a)]),
      Array(<<NarrativeItem(1)>>) }

OpinionResponses ==
    { Fenced([a \in 1..NAgents |-> OpinionItem(a)]),
      Array(<<OpinionItem(1)>>) }

(* an item whose resident_id names nobody of the run *)
StrangerItem(r) ==
    JObject([NoFields EXCEPT !["resident_id"] = JStr(<<"resident_", "99">>),
                             !["balhwa"] = Utt(r, 1),
                             !["jimok"] = GoodJimok])

(* in turn: every participant speaks; only the last one; nobody; a 지목    *)
(* list with an entry that is no object; an object, not an array; no JSON; *)
(* an array of numbers; the first participant speaks twice; somebody who   *)
(* is no participant speaks                                                *)
SpeechResponses(r) ==
    { Fenced([a \in 1..NAgents |-> SpeechItem(r, a, GoodJimok)]),
      Array(<<SpeechItem(r, NAgents, Rid(1))>>),
      Array(<<>>),
      Array(<<SpeechItem(r, 1, GoodJimok), SpeechItem(r, 2, BadJimok)>>),
      Text("", "", SpeechItem(r, 1, GoodJimok), ""),
      Text("", "", Garbage, ""),
      Array(<<JNum>>),
      Array(<<SpeechItem(r, 1, GoodJimok), SpeechItem(r, 1, GoodJimok)>>),
      Array(<<SpeechItem(r, 2, GoodJimok), StrangerItem(r)>>) }

agentVars == <<pc, round_num, turn, idx, think_turn, speaker, worker, results,
               speech, timeline, task, faults>>

-----------------------------------------------------------------------------
(* The other decoders of a 지목 value: parse_batch_speech applied to one   *)
(* response, and load_debate (src/evaluation/loader.py) applied to the     *)
(* 지목 cell of one row of the utterance table.                            *)

(* a 지목 value: a list of {대상, 입장} pairs, of one or of two; a single  *)
(* flat {대상, 입장}; no nomination; a bare target; null                   *)
Pair(a) == Nomination(Rid(a), JStr(<<"gonggam">>))

JimokValues ==
    { JList(<<Pair(1)>>), JList(<<Pair(1), Pair(NAgents)>>), Pair(1),
      JList(<<>>), Rid(1), JNull }

ParseBatchSpeech ==
    /\ ps.fn = "none"
    /\ \E jimok \in JimokValues \cup {BadJimok}, fenced \in BOOLEAN :
          LET items == <<SpeechItem(1, 1, jimok)>>
              response == IF fenced THEN Fenced(items) ELSE Array(items)
          IN  ps' = [fn |-> "parse_batch_speech", input |-> response,
                     result |-> parse_batch_speech(response)]
    /\ UNCHANGED <<listVars, provVars, memVars, lvVars, gwVars, runVars>>

(* load_debate, lines 57-66: row["지목"] of a row whose cell is raw; a     *)
(* cell that is None or "" gives [], and so does one that is no JSON       *)
load_debate(raw) ==
    IF raw = NoneResponse THEN JList(<<>>)
    ELSE LET decoded == json_loads(raw)
         IN  IF decoded.ok THEN decoded.v ELSE JList(<<>>)

LoadDebate ==
    /\ ps.fn = "none"
    /\ \E raw \in {NoneResponse}
                   \cup {Text("", "", v, "") : v \in JimokValues \cup {Garbage}} :
          ps' = [fn |-> "load_debate", input |-> raw,
                 result |-> Returned(load_debate(raw))]
    /\ UNCHANGED <<listVars, provVars, memVars, lvVars, gwVars, runVars>>

(* max_retries = 3 of the speaking call (simulation_lv1.py:245) *)
SpeechMaxRetries == 3

(* run() is entered *)
LvStart == [LvIdle EXCEPT !.pc = "narrative"]

(* A phase's call and parse: lines 174-176, 206-208, 288-290, 354-356 *)
Calls(responses) ==
    {_call_llm(script, text) : script \in CallScripts, text \in responses}

(* parses holds the parser's result for each response the call can have *)
LvCall(from, parses, to) ==
    /\ lv.pc = from
    /\ \E res \in parses :
          lv' = IF res.status = "raised"
              THEN [lv EXCEPT !.pc = "aborted"]
              ELSE [lv EXCEPT !.pc = to, !.parsed = res.out, !.idx = 1]
    /\ UNCHANGED <<listVars, provVars, memVars, gwVars, psVars, agentVars, logVars>>

(* 상대의견 and 생각 of a phase's think record: a narrative is logged as   *)
(* the 생각 with no 상대의견, an opinion as its 입장 and 생각              *)
ThinkSangdae(think_type, opinion) ==
    IF think_type = "narrative" THEN JNull ELSE opinion.ipjang
ThinkSaenggak(think_type, opinion) ==
    IF think_type = "narrative" THEN opinion ELSE opinion.saenggak

(* The `for rid in resident_ids` loop of a phase, one log_think a step *)
LvLog(at, round, first, think_type, default, to) ==
    /\ lv.pc = at
    /\ LET rid == resident_ids[lv.idx]
           opinion == IF lv.parsed[rid] = Absent THEN default ELSE lv.parsed[rid]
       IN  think_buffer' =
              LvLogThink(think_buffer, round, lv.idx + first, ResidentId(rid),
                         think_type, ThinkSangdae(think_type, opinion), JNull,
                         ThinkSaenggak(think_type, opinion))
    /\ lv' = IF lv.idx < NAgents THEN [lv EXCEPT !.idx = @ + 1]
             ELSE [lv EXCEPT !.idx = 1, !.pc = to]
    /\ UNCHANGED <<listVars, provVars, memVars, gwVars, psVars, agentVars, debate_buffer, debate_file,
                   think_file, saves>>

(* self.logger.save() and the _append_timeline that follows it *)
LvSave(at, section, to) ==
    /\ lv.pc = at
    /\ save
    /\ lv' = [lv EXCEPT !.pc = to, !.parsed = <<>>,
                        !.timeline = Append(@, section)]
    /\ UNCHANGED <<listVars, provVars, memVars, gwVars, psVars, agentVars, debate_buffer, think_buffer>>

(* "[서사 없음]", "무응답" *)
NoNarrative == JStr(<<"[no narrative]">>)
Mueungdap == JStr(<<"mueungdap">>)


(* --- narrative (lines 171-199) --- *)

LvNarrativeCall ==
    LvCall("narrative",
           {parse_batch_narrative(r) : r \in Calls(NarrativeResponses)},
           "narrative_log")

LvNarrativeLog ==
    LvLog("narrative_log", 0, 0, "narrative", NoNarrative,
          "narrative_save")

LvNarrativeSave == LvSave("narrative_save", "narrative", "initial")

(* --- initial opinions (lines 201-233) --- *)

LvInitialCall ==
    LvCall("initial", {parse_batch_opinion(r) : r \in Calls(OpinionResponses)},
           "initial_log")

LvInitialLog ==
    LvLog("initial_log", 0, 0, "initial",
          [ipjang |-> Mueungdap, saenggak |-> JStr(<<>>)],
          "initial_save")

(* save, _save_agent_list, _append_timeline; then the round loop *)
LvInitialSave ==
    /\ lv.pc = "initial_save"
    /\ save
    /\ initial_opinions' = lv.parsed
    /\ agent_list' = _save_agent_list("initial", lv.parsed, NoOpinions)
    /\ lv' = [lv EXCEPT !.pc = "speak", !.round_num = 1, !.calls = <<>>,
                        !.parsed = <<>>, !.timeline = Append(@, "initial")]
    /\ UNCHANGED <<provVars, memVars, gwVars, psVars, agentVars, debate_buffer, think_buffer>>

(* --- a round (lines 236-284) --- *)

(* speaking_task = get_lv1_speaking_task(round_num) (line 240), made once  *)
(* before the attempts of the round.  The function is used as this caller  *)
(* calls it, with the round number alone; the one of prompts/tasks.py      *)
(* takes the participants and the opinions as well.                        *)
speaking_task == <<"speaking task", lv.round_num>>

(* A prompt that tells a retry from the first attempt *)
prompt_data_of_attempt(task_text) ==
    [system |-> "context", timeline |-> lv.timeline,
     new_timeline |-> IF lv.calls = <<>> THEN "" ELSE "retry",
     task |-> task_text]

(* prompt_data of _call_llm (lines 144-149): the context prompt is made of *)
(* the fixed guide, rule, local context and participants                   *)
prompt_data(task_text) ==
    [system |-> "context", timeline |-> lv.timeline, new_timeline |-> "",
     task |-> task_text]

(* What is kept of a speaking call of the round: whether its response is a *)
(* text that decodes to a JSON array, and whether parse_batch_speech       *)
(* returned a list for it.                                                 *)
CallMade(response) ==
    [array |-> /\ response # NoneResponse
               /\ json_loads(_strip_markdown(response)).ok
               /\ IsList(json_loads(_strip_markdown(response)).v),
     list |-> /\ parse_batch_speech(response).status = "returned"
              /\ parse_batch_speech(response).out # JNull,
     prompt |-> prompt_data(speaking_task)]

(* One pass of `for attempt in range(1, max_retries + 1)`: the call,       *)
(* parse_batch_speech, `break` on a list; after the last pass              *)
(* `speeches = []`.  `bound` is the number of passes.                      *)
LvSpeakCallUpTo(bound) ==
    /\ lv.pc = "speak"
    /\ \E script \in CallScripts, text \in SpeechResponses(lv.round_num) :
          LET response == _call_llm(script, text)
              res == parse_batch_speech(response)
              calls == Append(lv.calls, CallMade(response))
          IN  lv' = IF res.status = "raised"
                    THEN [lv EXCEPT !.pc = "aborted", !.calls = calls]
                    ELSE IF res.out # JNull
                    THEN [lv EXCEPT !.pc = "speak_log", !.calls = calls,
                                    !.speeches = res.out.l, !.idx = 1]
                    ELSE IF Len(calls) < bound
                    THEN [lv EXCEPT !.calls = calls]
                    ELSE [lv EXCEPT !.pc = "speak_log", !.calls = calls,
                                    !.speeches = <<>>, !.idx = 1]
    /\ UNCHANGED <<listVars, provVars, memVars, gwVars, psVars, agentVars, logVars>>

LvSpeakCallOver == LvSpeakCallUpTo(SpeechMaxRetries + 1)

LvSpeakCall == LvSpeakCallUpTo(SpeechMaxRetries)

(* `for turn, speech in enumerate(speeches, 1)`: one log_debate a step;    *)
(* with no speech the loop body is not entered.                            *)
LvSpeakLog ==
    /\ lv.pc = "speak_log"
    /\ IF lv.speeches = <<>>
       THEN /\ lv' = [lv EXCEPT !.pc = "speak_save"]
            /\ UNCHANGED debate_buffer
       ELSE /\ LET speech_item == lv.speeches[lv.idx]
               IN  debate_buffer' =
                      LvLogDebate(debate_buffer, lv.round_num, lv.idx,
                                  speech_item.resident_id.s, speech_item.balhwa,
                                  speech_item.jimok, Absent)
            /\ lv' = IF lv.idx < Len(lv.speeches)
                     THEN [lv EXCEPT !.idx = @ + 1]
                     ELSE [lv EXCEPT !.idx = 1, !.pc = "speak_save"]
    /\ UNCHANGED <<listVars, provVars, memVars, gwVars, psVars, agentVars, think_buffer, debate_file,
                   think_file, saves>>

(* save, _append_timeline, then the next round or the final opinions *)
LvSpeakSave ==
    /\ lv.pc = "speak_save"
    /\ save
    /\ lv' = IF lv.round_num < NRounds
             THEN [lv EXCEPT !.pc = "speak", !.round_num = @ + 1,
                             !.calls = <<>>, !.speeches = <<>>,
                             !.timeline = Append(@, "round")]
             ELSE [lv EXCEPT !.pc = "final", !.calls = <<>>, !.speeches = <<>>,
                             !.timeline = Append(@, "round")]
    /\ UNCHANGED <<listVars, provVars, memVars, gwVars, psVars, agentVars, debate_buffer, think_buffer>>

(* --- final opinions (lines 286-309) --- *)

LvFinalCall ==
    LvCall("final", {parse_batch_opinion(r) : r \in Calls(OpinionResponses)},
           "final_log")

LvFinalLog ==
    LvLog("final_log", NRounds + 1, 0, "final",
          [ipjang |-> Mugwansim, saenggak |-> JStr(<<>>)],
          "final_save")

(* save and _save_agent_list; nothing is appended to the timeline *)
LvFinalSave ==
    /\ lv.pc = "final_save"
    /\ save
    /\ agent_list' = _save_agent_list("final", initial_opinions, lv.parsed)
    /\ lv' = [lv EXCEPT !.pc = "planner", !.parsed = <<>>]
    /\ UNCHANGED <<initial_opinions, provVars, memVars, gwVars, psVars, agentVars, debate_buffer, think_buffer>>

(* --- synthesis (lines 311-349) --- *)

(* parse_planner_result is not part of the sources: its result holds the   *)
(* compromise text "최종합의문", taken here as the text of the response.    *)
parse_planner_result(response) ==
    Returned([consensus |-> PyValue(response)])

PlannerText == Text("", "", Garbage, "")

(* run_planner, then log_think of the planner record *)
LvPlanner ==
    /\ lv.pc = "planner"
    /\ \E script \in CallScripts :
          LET planner_result ==
                 parse_planner_result(_call_llm(script, PlannerText)).out
          IN  think_buffer' =
                 LvLogThink(think_buffer, NRounds + 2, 1, <<"planner">>,
                            "planner", JNull, JNull, planner_result.consensus)
    /\ lv' = [lv EXCEPT !.pc = "planner_save"]
    /\ UNCHANGED <<listVars, provVars, memVars, gwVars, psVars, agentVars, debate_buffer, debate_file,
                   think_file, saves>>

LvPlannerSave == LvSave("planner_save", "consensus", "vote")

(* --- vote (lines 351-372) --- *)

(* parse_batch_vote is not part of the sources: a dict from resident id to *)
(* stance and reason, of the shape parse_batch_opinion returns.            *)
parse_batch_vote(response) == parse_batch_opinion(response)

LvVoteCall ==
    LvCall("vote", {parse_batch_vote(r) : r \in Calls(OpinionResponses)},
           "vote_log")

LvVoteLog ==
    LvLog("vote_log", NRounds + 2, 1, "vote",
          [ipjang |-> Mueungdap, saenggak |-> JStr(<<>>)],
          "vote_save")

LvVoteSave ==
    /\ lv.pc = "vote_save"
    /\ save
    /\ lv' = [lv EXCEPT !.pc = "done", !.parsed = <<>>]
    /\ UNCHANGED <<listVars, provVars, memVars, gwVars, psVars, agentVars, debate_buffer, think_buffer>>

-----------------------------------------------------------------------------
(* Specifications *)

(* The state of a controller before its first step, at position p *)
InitLoopAt(p) ==
    /\ pc = p
    /\ round_num = 0
    /\ turn = 1
    /\ idx = 1
    /\ think_turn = 1
    /\ speaker = [a \in Agents |-> Idle]
    /\ worker = [a \in Agents |-> Idle]
    /\ results = NoResults
    /\ speech = NoSpeech
    /\ timeline = [a \in Agents |-> <<>>]
    /\ task = [a \in Agents |-> <<"", <<>> >>]
    /\ faults = 0

(* DebateLogger.__init__: the buffers are empty *)
InitBuffers ==
    /\ debate_buffer = <<>>
    /\ think_buffer = <<>>
    /\ saves = 0

(* A run that starts with no output file of its set and level; the        *)
(* per-agent controller has written the table of the personas, the batch   *)
(* controller (p = "idle") writes none before its initial opinions         *)
InitAgentsAt(p) ==
    /\ memory = NoMemory /\ client = NoClients /\ cache = NoCache
    /\ IF p = "idle" THEN NoTable ELSE PersonasTable
    /\ InitLoopAt(p)
    /\ InitBuffers
    /\ debate_file = <<>>
    /\ think_file = <<>>

InitAgents == InitAgentsAt("narrative_submit")

InitRun == InitAgents /\ lv = LvIdle

(* The per-agent run *)
Init == gw = GwIdle /\ ps = PsIdle /\ InitRun

Next ==
    \/ NarrativeSubmit \/ NarrativeJoin \/ NarrativeStore \/ NarrativeSave
    \/ InitialSubmit \/ InitialJoin \/ InitialStore \/ InitialSave
    \/ SpeakStart \/ SpeakChat \/ Deliver
    \/ ReactSubmit \/ ReactJoin \/ ReactStore \/ TurnSave
    \/ ReflectSubmit \/ ReflectJoin \/ ReflectStore \/ ReflectSave
    \/ FinalSubmit \/ FinalJoin \/ FinalStore \/ FinalSave
    \/ \E a \in Agents : WorkerStart(a)
    \/ \E a \in Agents : WorkerChat(a)

Spec == Init /\ [][Next]_vars

(* The per-agent run when the controller thread and the pool threads keep  *)
(* running and every provider attempt returns or fails                     *)
SpecLive == Init /\ [][Next]_vars /\ WF_vars(Next)

(* the largest max_retries a caller passes *)
MaxBudget == 4

(* One gateway invocation, for each function and retry budget *)
InitGateway ==
    /\ gw \in {GwStart(fn, m) : fn \in {"chat_with_retry", "call_llm"},
                                m \in 1..MaxBudget}
    /\ ps = PsIdle
    /\ InitRun

NextGateway == ChatWithRetry \/ CallLlm

SpecGateway == InitGateway /\ [][NextGateway]_vars

(* One parser application, for each input text *)
InitParse ==
    /\ gw = GwIdle
    /\ ps \in {[fn |-> "none", input |-> r, result |-> NoResult] :
                 r \in ParserInputs}
    /\ InitRun

NextParse ==
    \/ ParseResponse \/ ParseThink \/ ParseInitialOpinion \/ ParseJson
    \/ ParseBatchSpeech \/ LoadDebate \/ GenerateThinking

SpecParse == InitParse /\ [][NextParse]_vars

(* The batch-mode run *)
InitBatch == gw = GwIdle /\ ps = PsIdle /\ InitAgentsAt("idle") /\ lv = LvStart

NextBatch ==
    \/ LvNarrativeCall \/ LvNarrativeLog \/ LvNarrativeSave
    \/ LvInitialCall \/ LvInitialLog \/ LvInitialSave
    \/ LvSpeakCall \/ LvSpeakLog \/ LvSpeakSave
    \/ LvFinalCall \/ LvFinalLog \/ LvFinalSave
    \/ LvPlanner \/ LvPlannerSave
    \/ LvVoteCall \/ LvVoteLog \/ LvVoteSave

SpecBatch == InitBatch /\ [][NextBatch]_vars

(* A run in either mode *)
InitRuns == Init \/ InitBatch

NextRuns == Next \/ NextBatch

SpecRuns == InitRuns /\ [][NextRuns]_vars

(* A logger and a client that logs records and saves in any order.  The   *)
(* output files are named after set_id and level: a logger constructed for *)
(* a set and level that were run before starts with the files of that run. *)
MaxLog == 2
MaxSaves == 2

EarlierDebateFile ==
    log_debate(<<>>, 1, 1, resident_ids[NAgents], Utt(1, 1), <<>>, Mugwansim)

EarlierThinkFile ==
    log_think(<<>>, 1, 1, resident_ids[1], "reaction",
              generate_code(resident_ids[NAgents], 1, 1, "r"),
              Thought(1, 1, resident_ids[1]))

LoggedBy == {resident_ids[1], resident_ids[NAgents]}

LogDebate ==
    /\ Len(debate_buffer) < MaxLog
    /\ \E agent_id \in LoggedBy :
          LET trn == Len(debate_buffer) + 1
          IN  debate_buffer' = log_debate(debate_buffer, 1, trn, agent_id,
                                          Utt(1, trn), <<>>, Mugwansim)
    /\ UNCHANGED <<listVars, provVars, memVars, lvVars, gwVars, psVars, agentVars, think_buffer,
                   debate_file, think_file, saves>>

LogThink ==
    /\ Len(think_buffer) < MaxLog
    /\ \E agent_id \in LoggedBy :
          LET trn == Len(think_buffer) + 1
          IN  think_buffer' = log_think(think_buffer, 1, trn, agent_id,
                                        "reflection", JNull,
                                        Thought(1, trn, agent_id))
    /\ UNCHANGED <<listVars, provVars, memVars, lvVars, gwVars, psVars, agentVars, debate_buffer,
                   debate_file, think_file, saves>>

Save ==
    /\ saves < MaxSaves
    /\ save
    /\ UNCHANGED <<listVars, provVars, memVars, lvVars, gwVars, psVars, agentVars, debate_buffer,
                   think_buffer>>

InitLogger ==
    /\ gw = GwIdle /\ ps = PsIdle /\ lv = LvIdle /\ memory = NoMemory /\ client = NoClients /\ cache = NoCache /\ NoTable
    /\ InitLoopAt("idle")
    /\ InitBuffers
    /\ debate_file \in {<<>>, EarlierDebateFile}
    /\ think_file \in {<<>>, EarlierThinkFile}

NextLogger == LogDebate \/ LogThink \/ Save

SpecLogger == InitLogger /\ [][NextLogger]_vars

(* Threads that call _get_client of the provider modules, in a process     *)
(* whose environment enables each provider or not                          *)
InitClient ==
    /\ gw = GwIdle /\ ps = PsIdle /\ lv = LvIdle
    /\ memory = NoMemory /\ cache = NoCache /\ NoTable
    /\ InitLoopAt("idle")
    /\ InitBuffers
    /\ debate_file = <<>> /\ think_file = <<>>
    /\ client \in {[NoClients EXCEPT !.env = e] : e \in [Providers -> Environments]}

NextClient ==
    \E t \in Threads :
        \/ GetClientCall(t) \/ GetClientTest(t) \/ GetClientConstruct(t)
        \/ GetClientAssign(t) \/ GetClientReturn(t)

SpecClient == InitClient /\ [][NextClient]_vars

(* One GeminiLLM object whose cache methods are called in any order *)
InitCache ==
    /\ gw = GwIdle /\ ps = PsIdle /\ lv = LvIdle
    /\ memory = NoMemory /\ client = NoClients /\ cache = NoCache /\ NoTable
    /\ InitLoopAt("idle")
    /\ InitBuffers
    /\ debate_file = <<>> /\ think_file = <<>>

NextCache == CreateCache \/ RefreshCache \/ DeleteCache

SpecCache == InitCache /\ [][NextCache]_vars

(* One Memory object, created for each persona *)
InitMemory ==
    /\ gw = GwIdle /\ ps = PsIdle /\ lv = LvIdle
    /\ client = NoClients /\ cache = NoCache /\ NoTable
    /\ InitLoopAt("idle")
    /\ InitBuffers
    /\ debate_file = <<>> /\ think_file = <<>>
    /\ memory \in {Memory("system", "rule", "local", persona) :
                      persona \in {"persona_1", "persona_2"}}

NextMemory == AddUtterance \/ AddMyUtterance \/ AddMyThink \/ SetTask

SpecMemory == InitMemory /\ [][NextMemory]_vars

-----------------------------------------------------------------------------
(* Properties of the gateway (SpecGateway) *)

GwFinished == gw.status \in {"returned", "raised"}

(* the position of the first attempt that ended in a non-empty text *)
Succeeded(i) == gw.tries[i].kind = "text"

C9_EmptyIsRetried ==
    gw.fn # "idle" =>
        /\ \A i \in 1..Len(gw.tries) :
              gw.tries[i].kind \in {"empty", "none"} /\ i < gw.max_retries
                 => i < Len(gw.tries) \/ gw.status = "running"
        /\ gw.status = "returned" =>
              \/ gw.value.kind = "text"
              \/ gw.value.kind = "none" /\ Len(gw.tries) = gw.max_retries

(* C10: an attempt that fails with a non-retryable (authentication /       *)
(* validation) failure is the last attempt of the invocation: the failure  *)
(* is raised to the caller at once, and no backoff delay follows it.       *)
C10_NonRetryableFailsAtOnce ==
    gw.fn # "idle" =>
        \A i \in 1..Len(gw.tries) :
            gw.tries[i].kind = "raise" /\ IsNonRetryable(gw.tries[i].marks)
               => /\ i = Len(gw.tries)
                  /\ gw.status = "raised"
                  /\ Len(gw.sleeps) < i

-----------------------------------------------------------------------------
(* Properties of the per-agent parsers (SpecParse) *)

(* The input fails structured decode: it is None, no JSON document, or a   *)
(* JSON document that is no object.                                        *)
FailsDecode(input) ==
    \/ input = NoneResponse
    \/ LET decoded == json_loads(_strip_markdown(input))
       IN  ~decoded.ok \/ ~HasGet(decoded.v)

(* the free-text field of a parser's result *)
FreeText(fn, out) == IF fn = "parse_response" THEN out.balhwa ELSE out.saenggak

(* C6: on every input that fails structured decode the parsers             *)
(* parse_response, parse_think and parse_initial_opinion return (never     *)
(* raise) a default whose free-text field is the raw input text (the       *)
(* no-response placeholder when the input is None).                        *)
C6_ParsersNeverRaise ==
    ps.fn \in {"parse_response", "parse_think", "parse_initial_opinion"}
      /\ FailsDecode(ps.input)
        => /\ ps.result.status = "returned"
           /\ FreeText(ps.fn, ps.result.out) =
                 IF ps.input = NoneResponse THEN NoResponseText
                 ELSE Raw(ps.input)

(* the input is a JSON object text wrapped in a FENCE or FENCEjson fence *)
IsFenced(input) ==
    /\ input # NoneResponse
    /\ input.pre = "" /\ input.open \in {"FENCE", "FENCEjson"}
    /\ input.close = "FENCE"
    /\ input.body.t = "object"

Unwrapped(input) == Text("", "", input.body, "")

(* what the parser fn returns for the unwrapped text *)
OfUnwrapped(fn, input) ==
    CASE fn = "parse_response" -> parse_response(Unwrapped(input))
      [] fn = "parse_think" -> parse_think(Unwrapped(input))
      [] fn = "parse_initial_opinion" -> parse_initial_opinion(Unwrapped(input))
      [] fn = "generate_thinking" -> generate_thinking(Unwrapped(input), 0, <<>>)
      [] OTHER -> parse_json(Unwrapped(input), 0, <<>>)

NoRepair(fn, result) == fn = "parse_json" => result.repairs = 0

(* C19 as stated: for a JSON object text wrapped in a FENCE or FENCEjson   *)
(* fence, the result of the parser equals the result of parsing the        *)
(* unwrapped text, and no repair call is made.                             *)
C19_FencedEqualsUnwrapped ==
    ps.fn \notin {"idle", "none"} /\ IsFenced(ps.input)
       => /\ ps.result = OfUnwrapped(ps.fn, ps.input)
          /\ NoRepair(ps.fn, ps.result)

(* field f of the two results is the same, or is in both the default of    *)
(* an absent text field: the raw response, with and without its fence      *)
SameField(f, fenced, plain, input) ==
    \/ fenced[f] = plain[f]
    \/ /\ f \in {"balhwa", "saenggak"}
       /\ input.body.o[f] = Absent
       /\ fenced[f] = Raw(input)
       /\ plain[f] = Raw(Unwrapped(input))

(* C19: for a JSON object text wrapped in a FENCE or FENCEjson fence the   *)
(* parser strips the fence and decodes the text directly, and no repair    *)
(* call is made.  The result has the status of the result for the          *)
(* unwrapped text and equals it in every field, but for a text field the   *)
(* object does not carry, which holds the raw response of each.            *)
C19_FencedDecodesDirectly ==
    ps.fn \notin {"idle", "none"} /\ IsFenced(ps.input)
       => LET plain == OfUnwrapped(ps.fn, ps.input)
          IN  /\ json_loads(_strip_markdown(ps.input)) =
                    [ok |-> TRUE, v |-> ps.input.body]
              /\ NoRepair(ps.fn, ps.result)
              /\ ps.result.status = plain.status
              /\ IF ps.fn = "parse_json" \/ ps.result.status = "raised"
                 THEN ps.result = plain
                 ELSE \A f \in DOMAIN ps.result.out :
                         SameField(f, ps.result.out, plain.out, ps.input)

(* parse_response has returned the utterance of a FENCEjson-wrapped object *)
C19_Witness ==
    /\ ps.fn = "parse_response"
    /\ IsFenced(ps.input) /\ ps.input.open = "FENCEjson"
    /\ ps.result = Returned([balhwa |-> JStr(<<"hello">>), jimok |-> <<>>])

(* the input decodes to a speech object whose nomination is a non-empty    *)
(* single string and which has a top-level attitude field                  *)
IsLegacySpeech(input) ==
    /\ input # NoneResponse
    /\ json_loads(_strip_markdown(input)).ok
    /\ input.body.t = "object"
    /\ input.body.o["jimok"].t = "str"
    /\ input.body.o["jimok"].s # <<>>
    /\ input.body.o["ipjang"] # Absent

(* C20: for a speech object whose nomination field is a non-empty single   *)
(* string T and that carries a separate top-level attitude field A,        *)
(* parse_response returns nominations equal to the one-element list        *)
(* [{target: T, attitude: A}].                                             *)
C20_LegacyNomination ==
    ps.fn = "parse_response" /\ IsLegacySpeech(ps.input)
       => /\ ps.result.status = "returned"
          /\ ps.result.out.jimok =
                <<Nomination(ps.input.body.o["jimok"],
                             ps.input.body.o["ipjang"])>>

(* parse_response has returned the nomination of a speech object that      *)
(* names resident_05 in a string with the attitude beside it               *)
C20_Witness ==
    /\ ps.fn = "parse_response"
    /\ IsLegacySpeech(ps.input)
    /\ ps.input.body.o["jimok"] = JStr(<<"resident_05">>)
    /\ ps.input.body.o["ipjang"] = JStr(<<"gonggam">>)
    /\ ps.result.status = "returned"
    /\ Len(ps.result.out.jimok) = 1

(* the 지목 value the decoder of ps was given, and what it made of it *)
JimokGiven ==
    CASE ps.fn = "parse_response" -> ps.input.body.o["jimok"]
      [] ps.fn = "parse_batch_speech" -> ps.input.body.l[1].o["jimok"]
      [] OTHER -> ps.input.body

JimokDecoded ==
    CASE ps.fn = "parse_response" -> JList(ps.result.out.jimok)
      [] ps.fn = "parse_batch_speech" ->
            IF ps.result.out.t = "list" /\ ps.result.out.l # <<>>
            THEN JList(ps.result.out.l[1].jimok)
            ELSE JNull
      [] OTHER -> ps.result.out

(* a decoder was applied to a text that decodes to a 지목 value *)
DecodedJimok ==
    /\ ps.fn \in {"parse_response", "parse_batch_speech", "load_debate"}
    /\ ps.input # NoneResponse
    /\ ps.input.pre = "" /\ ps.input.open \in {"", "FENCE", "FENCEjson"}
    /\ ps.input.close = (IF ps.input.open = "" THEN "" ELSE "FENCE")
    /\ IF ps.fn = "parse_response" THEN ps.input.body.t = "object"
       ELSE IF ps.fn = "parse_batch_speech" THEN ps.input.body.t = "list"
       ELSE TRUE

IsPair(v) == v.t = "dict" /\ v.d.daesang # Absent /\ v.d.ipjang # Absent

IsPairList(v) ==
    v.t = "list" /\ v.l # <<>> /\ \A i \in 1..Len(v.l) : IsPair(v.l[i])

(* C21: every nominations decoder (parse_response, parse_batch_speech and  *)
(* load_debate) accepts both the list of {대상, 입장} pairs and the older   *)
(* single flat {대상, 입장}, and yields the list form holding the same     *)
(* nomination(s).                                                          *)
C21_BothShapesNormalised ==
    DecodedJimok =>
       /\ IsPairList(JimokGiven) => JimokDecoded = JimokGiven
       /\ IsPair(JimokGiven) => JimokDecoded = JList(<<JimokGiven>>)

PerAgentParsers == {"parse_response", "parse_think", "parse_initial_opinion"}

Applied(fn, input) ==
    CASE fn = "parse_response" -> parse_response(input)
      [] fn = "parse_think" -> parse_think(input)
      [] OTHER -> parse_initial_opinion(input)

TextKey(fn) == IF fn = "parse_response" THEN "balhwa" ELSE "saenggak"

(* the text of a response that is no JSON document: plain prose *)
Prose == <<"hello">>

(* The str a logged column holds: a raw response that is plain prose is    *)
(* the str of that prose, the same str a decoded field can hold.           *)
Cell(v) ==
    IF "raw" \in DOMAIN v /\ v.raw = Text("", "", Garbage, "")
    THEN JStr(Prose) ELSE v

(* the columns logged from a parser's result *)
Logged(fn, out) == [out EXCEPT ![TextKey(fn)] = Cell(@)]

(* "찬성/조건부찬성/조건부반대/반대 중 택1" (prompts/tasks.py:28) *)
ValidStances == {JStr(<<"chanseong">>), JStr(<<"maeu", " ", "chanseong">>)}

(* the input decodes to an object with the fields the task asked for *)
WellFormedOutput(fn, input) ==
    /\ ~FailsDecode(input)
    /\ input.body.o[TextKey(fn)].t = "str"
    /\ fn = "parse_response" => input.body.o["jimok"].t \in {"absent", "list"}
    /\ fn = "parse_initial_opinion" => input.body.o["ipjang"] \in ValidStances

(* C22: every degraded or defaulted record is distinguishable in the log   *)
(* from every record of a successful decode: no well-formed model output   *)
(* yields a parsed result equal to the default the same parser returns on  *)
(* a failure.                                                              *)
C22_DefaultsDistinguishable ==
    ps.fn \in PerAgentParsers /\ WellFormedOutput(ps.fn, ps.input) =>
       \A failing \in ParserInputs :
          FailsDecode(failing) /\ Applied(ps.fn, failing).status = "returned"
             => Logged(ps.fn, Applied(ps.fn, failing).out)
                   # Logged(ps.fn, ps.result.out)

-----------------------------------------------------------------------------
(* Properties of the per-agent run (Spec) *)

(* The utterance records whose turn has reached the other participants:    *)
(* all of them, but the one just logged while the appends of lines 317-320 *)
(* are still to be made.                                                   *)
Released ==
    IF pc = "deliver"
    THEN SubSeq(debate_buffer, 1, Len(debate_buffer) - 1)
    ELSE debate_buffer

(* The released utterances made by participants other than P, in order *)
HeardBy(P) == SelectSeq(Released, LAMBDA rec : rec.agent_id # P)

(* the number of entries of sequence q that satisfy Test *)
Count(q, Test(_)) == Len(SelectSeq(q, Test))

(* C1: for all participants P # Q, once a speaking turn of Q is released,  *)
(* P's conversationHistory holds that utterance of Q exactly once, no      *)
(* participant's conversationHistory holds an utterance of its own, and    *)
(* the length of P's conversationHistory is the number of utterances made  *)
(* so far by the others: the history of P is, entry by entry, the          *)
(* sequence of the utterances released by the others.                      *)
C1_HistoryVisibility ==
    \A P \in Agents :
        LET h == conversationHistory(timeline[P])
            heard == HeardBy(P)
        IN  /\ Len(h) = Len(heard)
            /\ \A i \in 1..Len(h) :
                  /\ h[i].speaker = heard[i].agent_id
                  /\ h[i].content = heard[i].balhwa
                  /\ h[i].speaker # P
            /\ \A Q \in Agents \ {P} :
                  Count(h, LAMBDA e : e.speaker = Q)
                     = Count(Released, LAMBDA rec : rec.agent_id = Q)

(* the end of the reaction phase of the second turn of round 2: the first  *)
(* participant has heard the second once per round, the second never       *)
(* itself                                                                  *)
C1_Witness ==
    /\ pc = "turn_save" /\ round_num = 2 /\ turn = 2
    /\ Count(conversationHistory(timeline[1]), LAMBDA e : e.speaker = 2) = 2
    /\ Len(conversationHistory(timeline[2])) = NAgents

(* the codes of all logged records, utterance records first *)
Codes ==
    [i \in 1..Len(debate_buffer) |-> debate_buffer[i].code]
        \o [i \in 1..Len(think_buffer) |-> think_buffer[i].code]

(* C2: no two records of the utterance and think buffers of a run share a  *)
(* code, i.e. a tuple (participantId, round, turn, kind).                  *)
C2_CodesUnique ==
    \A i, j \in 1..Len(Codes) : i # j => Codes[i] # Codes[j]

(* the utterance of the current speaking turn, as an entry of a history *)
CurrentUtterance ==
    [type |-> "utterance", speaker |-> speaker_id,
     content |-> speech.parsed.balhwa]

Last(q) == q[Len(q)]

(* C3: while a reaction worker's model call of a speaking turn is in       *)
(* flight, the speaker's parsed utterance is the latest entry of the       *)
(* conversationHistory of every non-speaking participant, and of the       *)
(* memory the worker built its prompt from.                                *)
C3_ReactionAfterDelivery ==
    \A a \in Agents :
        pc = "react_wait" /\ worker[a].st = "running" =>
            /\ \A P \in Agents \ {speaker_id} :
                  LET h == conversationHistory(timeline[P])
                  IN  /\ Len(h) > 0
                      /\ Last(h) = CurrentUtterance
                      /\ Count(h, LAMBDA e : e.speaker = speaker_id) = round_num
            /\ Len(conversationHistory(worker[a].seen)) > 0
            /\ Last(conversationHistory(worker[a].seen)) = CurrentUtterance

(* the last participant reacts to the first speaker of round 1 *)
C3_Witness ==
    /\ pc = "react_wait" /\ round_num = 1 /\ turn = 1
    /\ worker[NAgents].st = "running"
    /\ worker[NAgents].g.attempt = 1

InFlight == {a \in Agents : speaker[a].st = "running"}

(* C4: at most one speaking call is in flight, it is the call of the       *)
(* speaker of the current turn, no pool worker runs meanwhile, and when it *)
(* is in flight every utterance logged before (the earlier speakers' in    *)
(* turn order) is (a) in the conversationHistory of every other            *)
(* participant and (b) in the saved utterance file.                        *)
C4_SpeakingSequential ==
    /\ Cardinality(InFlight) <= 1
    /\ \A a \in InFlight :
          /\ pc = "speaking" /\ a = speaker_id
          /\ \A b \in Agents : worker[b].st = "idle"
          /\ Len(debate_buffer) = (round_num - 1) * NAgents + turn - 1
          /\ \A i \in 1..Len(debate_buffer) :
                LET rec == debate_buffer[i]
                IN  /\ rec.agent_id = resident_ids[((i - 1) % NAgents) + 1]
                    /\ \A P \in Agents \ {rec.agent_id} :
                          \E k \in 1..Len(timeline[P]) :
                              timeline[P][k] =
                                 [type |-> "utterance",
                                  speaker |-> rec.agent_id,
                                  content |-> rec.balhwa]
                    /\ i <= Len(debate_file) /\ debate_file[i] = rec

(* the second speaker's call is retried while the first utterance is saved *)
C4_Witness ==
    /\ pc = "speaking" /\ round_num = 1 /\ turn = 2
    /\ speaker[2].st = "running" /\ speaker[2].g.attempt = 1
    /\ Len(debate_file) = 1

(* the records of think_type ty that participant a logged in round r *)
ThinkRecords(buf, ty, r, a) ==
    SelectSeq(buf, LAMBDA rec : /\ rec.think_type = ty
                                /\ rec.round = r
                                /\ rec.agent_id = a)

(* every record of recs is an entry of the think trace of tl *)
InMemory(recs, tl) ==
    \A i \in 1..Len(recs) :
        \E k \in 1..Len(tl) :
            tl[k] = [type |-> "my_think", content |-> recs[i].saenggak]

(* every reaction of round r is in its reactor's memory and in the log *)
ReactionsWritten(r) ==
    \A a \in Agents :
        LET recs == ThinkRecords(think_buffer, "reaction", r, a)
        IN  /\ Len(recs) = NAgents - 1
            /\ ThinkRecords(think_file, "reaction", r, a) = recs
            /\ InMemory(recs, timeline[a])
            /\ Len(thinkTrace(timeline[a])) >= 1 + r * NAgents

(* every reflection of round r is in its owner's memory *)
ReflectionsWritten(r) ==
    \A a \in Agents :
        LET recs == ThinkRecords(think_buffer, "reflection", r, a)
        IN  /\ Len(recs) = 1
            /\ InMemory(recs, timeline[a])
            /\ Len(thinkTrace(timeline[a])) >= 2 + r * NAgents

(* C5: phases are barriers.  While a reflection call of round R is in      *)
(* flight, every reaction of every speaking turn of round R is written to  *)
(* its reactor's memory and to the log; while the first speaking call of   *)
(* round R+1 is in flight, every reflection of round R is written to its   *)
(* owner's memory.                                                         *)
C5_PhaseBarriers ==
    /\ \A a \in Agents :
          pc = "reflect_wait" /\ worker[a].st = "running"
             => ReactionsWritten(round_num)
    /\ \A a \in Agents :
          speaker[a].st = "running" /\ turn = 1 /\ round_num > 1
             => ReflectionsWritten(round_num - 1) /\ pc = "speaking"

(* a reflection call of round 2 in flight while another has finished: the  *)
(* speaking turns of round 2 started after the reflections of round 1      *)
C5_Witness ==
    /\ pc = "reflect_wait" /\ round_num = 2
    /\ worker[1].st = "running" /\ worker[2].st = "finished"
    /\ Len(ThinkRecords(think_buffer, "reflection", 1, 1)) = 1
    /\ Len(ThinkRecords(think_buffer, "reaction", 2, 1)) = NAgents - 1

(* the utterance records of speaking turns whose call ended without a      *)
(* response                                                                *)
DegradedRecords ==
    SelectSeq(debate_buffer, LAMBDA rec : rec.balhwa = NoResponseText)

(* C7: when a speaking call fails on all its gateway attempts the run does *)
(* not abort and the utterance record logged for the turn carries the      *)
(* no-response stance sentinel (a str) in its stance column.               *)
C7_DegradedRecordHasSentinel ==
    /\ pc # "aborted"
    /\ \A i \in 1..Len(DegradedRecords) : DegradedRecords[i].ipjang.t = "str"

(* the provider attempts made so far by the calls in flight *)
AttemptsInFlight ==
    UNION {Range(worker[a].g.tries) \cup Range(speaker[a].g.tries) : a \in Agents}

(* C11: a permanent provider failure (authentication, invalid request,     *)
(* disabled provider) raised by an attempt of a phase call propagates out  *)
(* of the controller: once such an attempt was made the run is aborted,    *)
(* the call is not continued and no record is logged from it.              *)
C11_PermanentFailureAborts ==
    (\E o \in AttemptsInFlight : o.kind = "raise" /\ IsNonRetryable(o.marks))
        => pc = "aborted"

-----------------------------------------------------------------------------
(* Properties of the batch-mode run (SpecBatch) *)

InRound == lv.pc \in {"speak", "speak_log", "speak_save"}

(* the utterance records logged for round r *)
RoundRecords(r) == SelectSeq(debate_buffer, LAMBDA rec : rec.round = r)

(* C12 as stated: the speaking call of a round is re-issued only when its  *)
(* response does not parse as an array; at most 3 calls are made, none     *)
(* after the first response that parses as an array; after 3 failures the  *)
(* round has no utterance record.                                          *)
C12_ReissuedOnlyOnNonArray ==
    InRound =>
        /\ Len(lv.calls) <= SpeechMaxRetries
        /\ \A i \in 1..Len(lv.calls) - 1 : ~lv.calls[i].array
        /\ lv.pc = "speak" => \A i \in 1..Len(lv.calls) : ~lv.calls[i].array
        /\ (lv.pc # "speak" /\ \A i \in 1..Len(lv.calls) : ~lv.calls[i].array)
              => Len(lv.calls) = SpeechMaxRetries
                    /\ RoundRecords(lv.round_num) = <<>>

(* C12: the speaking call of a round is re-issued as a whole when          *)
(* parse_batch_speech returns None for its response (no response, no JSON, *)
(* no array, or an array with a nomination list holding an entry that is   *)
(* no object with a target); at most 3 calls are made for the round, none  *)
(* after the first response parse_batch_speech returns a list for; after   *)
(* 3 failures the round has no utterance record and the run goes on to the *)
(* save of the round.                                                      *)
C12_BatchSpeechRetry ==
    InRound =>
        /\ Len(lv.calls) <= SpeechMaxRetries
        /\ \A i \in 1..Len(lv.calls) - 1 : ~lv.calls[i].list
        /\ lv.pc = "speak" =>
              /\ Len(lv.calls) < SpeechMaxRetries
              /\ \A i \in 1..Len(lv.calls) : ~lv.calls[i].list
        /\ lv.pc # "speak" =>
              /\ Len(lv.calls) >= 1
              /\ \/ lv.calls[Len(lv.calls)].list
                 \/ /\ Len(lv.calls) = SpeechMaxRetries
                    /\ lv.speeches = <<>>
                    /\ RoundRecords(lv.round_num) = <<>>

(* a round given up after three calls, the second of which answered with   *)
(* an array, while round 1 had logged its utterances                       *)
C12_Witness ==
    /\ lv.pc = "speak_save" /\ lv.round_num = 2
    /\ Len(lv.calls) = SpeechMaxRetries
    /\ \A i \in 1..SpeechMaxRetries : ~lv.calls[i].list
    /\ lv.calls[2].array
    /\ Len(RoundRecords(1)) = NAgents
    /\ RoundRecords(2) = <<>>

-----------------------------------------------------------------------------
(* Properties of a run in either mode (SpecRuns) *)

(* The steps of the phases in their fixed order, numbered from 0.          *)
(* Per-agent mode: 4 steps (submit, wait, store, save) for NARRATIVE and   *)
(* for INITIAL_OPINION; per round, 7 steps for each speaking turn          *)
(* (SPEAKING: speak, speaking, deliver; REACTION: submit, wait, store,     *)
(* save) and 4 for REFLECTION; 4 for FINAL_OPINION.                        *)
RoundSteps == 7 * NAgents + 4

StepInPhase(p) ==
    CASE p \in {"narrative_submit", "initial_submit", "reflect_submit",
                "final_submit", "speak"} -> 0
      [] p \in {"narrative_wait", "initial_wait", "reflect_wait",
                "final_wait", "speaking"} -> 1
      [] p \in {"narrative_store", "initial_store", "reflect_store",
                "final_store", "deliver"} -> 2
      [] p \in {"narrative_save", "initial_save", "reflect_save",
                "final_save", "react_submit"} -> 3
      [] p = "react_wait" -> 4
      [] p = "react_store" -> 5
      [] p = "turn_save" -> 6
      [] OTHER -> 0

RoundBase == 8 + (round_num - 1) * RoundSteps

Progress ==
    CASE pc \in {"narrative_submit", "narrative_wait", "narrative_store",
                 "narrative_save"} -> StepInPhase(pc)
      [] pc \in {"initial_submit", "initial_wait", "initial_store",
                 "initial_save"} -> 4 + StepInPhase(pc)
      [] pc \in {"speak", "speaking", "deliver", "react_submit", "react_wait",
                 "react_store", "turn_save"}
            -> RoundBase + (turn - 1) * 7 + StepInPhase(pc)
      [] pc \in {"reflect_submit", "reflect_wait", "reflect_store",
                 "reflect_save"}
            -> RoundBase + NAgents * 7 + StepInPhase(pc)
      [] pc \in {"final_submit", "final_wait", "final_store", "final_save"}
            -> 8 + NRounds * RoundSteps + StepInPhase(pc)
      [] pc = "done" -> 8 + NRounds * RoundSteps + 4
      [] OTHER -> 0

(* Batch mode: 3 steps (call, log, save) for NARRATIVE, INITIAL_OPINION,   *)
(* each round and FINAL_OPINION, 2 for SYNTHESIS, 3 for VOTE.              *)
LvStepInPhase(p) ==
    CASE p \in {"narrative", "initial", "speak", "final", "planner", "vote"} -> 0
      [] p \in {"narrative_log", "initial_log", "speak_log", "final_log",
                "planner_save", "vote_log"} -> 1
      [] OTHER -> 2

LvProgress ==
    CASE lv.pc \in {"narrative", "narrative_log", "narrative_save"}
            -> LvStepInPhase(lv.pc)
      [] lv.pc \in {"initial", "initial_log", "initial_save"}
            -> 3 + LvStepInPhase(lv.pc)
      [] lv.pc \in {"speak", "speak_log", "speak_save"}
            -> 6 + (lv.round_num - 1) * 3 + LvStepInPhase(lv.pc)
      [] lv.pc \in {"final", "final_log", "final_save"}
            -> 6 + NRounds * 3 + LvStepInPhase(lv.pc)
      [] lv.pc \in {"planner", "planner_save"}
            -> 9 + NRounds * 3 + LvStepInPhase(lv.pc)
      [] lv.pc \in {"vote", "vote_log", "vote_save"}
            -> 11 + NRounds * 3 + LvStepInPhase(lv.pc)
      [] lv.pc = "done" -> 14 + NRounds * 3
      [] OTHER -> 0

Saved == debate_file = debate_buffer /\ think_file = think_buffer

(* the think_type of the record logged last *)
LastThinkType == think_buffer[Len(think_buffer)].think_type

(* a controller's step stays in its step of the order or enters the next   *)
(* one (or the run ends on an exception)                                   *)
InOrder ==
    /\ pc' = pc \/ pc' = "aborted" \/ Progress' = Progress + 1
    /\ lv.pc' = lv.pc \/ lv.pc' = "aborted" \/ LvProgress' = LvProgress + 1

-----------------------------------------------------------------------------
(* Termination of the per-agent run (SpecLive) *)

NoResponseThinks ==
    SelectSeq(think_buffer, LAMBDA rec : rec.saenggak = NoResponseText)

-----------------------------------------------------------------------------
(* Properties of the logger (SpecLogger) *)

(* a step that is a call of save() *)
SaveStep == saves' = saves + 1

(* C15: calling save() twice in succession with no record logged in        *)
(* between leaves the persisted utterance and think tables after the       *)
(* second call identical to what they were after the first.                *)
C15_SaveTwice ==
    [][SaveStep =>
          /\ SavedFile(debate_file', debate_buffer') = debate_file'
          /\ SavedFile(think_file', think_buffer') = think_file']_vars

(* two saves were made over non-empty buffers that did not change between  *)
(* them                                                                    *)
C15_Witness ==
    /\ saves = 2
    /\ debate_buffer # <<>> /\ debate_file = debate_buffer
    /\ think_buffer # <<>> /\ think_file = think_buffer

(* C16: after every call of save(), in any state of the logger, the        *)
(* persisted utterance table holds exactly the records of the utterance    *)
(* buffer and the persisted think table exactly those of the think buffer, *)
(* in logging order.                                                       *)
C16_SaveReflectsBuffers ==
    [][SaveStep =>
          /\ debate_file' = debate_buffer'
          /\ think_file' = think_buffer']_vars

-----------------------------------------------------------------------------
(* What a crash can lose (SpecRuns) *)

IsPrefix(p, q) == Len(p) <= Len(q) /\ SubSeq(q, 1, Len(p)) = p

(* the records logged since the last save *)
Unsaved(file, buffer) == SubSeq(buffer, Len(file) + 1, Len(buffer))

UnsavedDebate == Unsaved(debate_file, debate_buffer)
UnsavedThink == Unsaved(think_file, think_buffer)

PerAgent == lv.pc = "idle"

(* the controller is between two phases, rounds or speaking turns *)
BetweenPhases ==
    \/ pc \in {"initial_submit", "speak", "reflect_submit", "final_submit",
               "done"}
    \/ lv.pc \in {"initial", "speak", "final", "planner", "vote", "done"}

(* the records of q are those of one phase, or of one speaking turn *)
OnePhase(q) ==
    /\ Len(q) <= NAgents
    /\ \A i, j \in 1..Len(q) : /\ q[i].round = q[j].round
                               /\ q[i].think_type = q[j].think_type
    /\ \A i \in 1..Len(q) :
          q[i].think_type = "reaction" =>
             /\ Len(q) <= NAgents - 1
             /\ q[i].round = round_num

(* the utterance records of q are those of one speaking turn of a per-agent *)
(* run, or of one round of a batch-mode run                                 *)
OneTurn(q) ==
    IF PerAgent
    THEN Len(q) <= 1 /\ \A i \in 1..Len(q) : q[i].round = round_num
                                              /\ q[i].turn = turn
    ELSE Len(q) <= NAgents /\ \A i \in 1..Len(q) : q[i].round = lv.round_num

(* C17: at every point of a run, every record logged in an already         *)
(* completed phase or round is in the persisted tables; the records logged *)
(* since the last save are at most those of the phase or speaking turn in  *)
(* progress.                                                               *)
C17_CrashLosesOnlyCurrentPhase ==
    /\ IsPrefix(debate_file, debate_buffer)
    /\ IsPrefix(think_file, think_buffer)
    /\ BetweenPhases => debate_file = debate_buffer /\ think_file = think_buffer
    /\ OneTurn(UnsavedDebate)
    /\ OnePhase(UnsavedThink)
    /\ UnsavedThink # <<>> /\ UnsavedDebate # <<>> =>
          PerAgent /\ UnsavedThink[1].think_type = "reaction"

(* in the second round the utterance of a speaking turn and a reaction to  *)
(* it are logged and not yet saved, and the earlier records are saved      *)
C17_Witness ==
    /\ pc = "react_store"
    /\ round_num = 2
    /\ debate_file # <<>> /\ UnsavedDebate # <<>>
    /\ think_file # <<>> /\ UnsavedThink # <<>>

-----------------------------------------------------------------------------
(* The records of a round of the per-agent run (Spec) *)

(* every model call so far returned its well-formed text *)
OnlyWellFormed == faults = 0

(* the reflections of round r are all logged *)
RoundDone(r) ==
    \/ r < round_num
    \/ /\ r = round_num
       /\ pc \in {"reflect_save", "final_submit", "final_wait", "final_store",
                  "final_save", "done"}

(* the reactions logged to the utterance of speaking turn q of round r *)
ReactionsTo(r, q) ==
    SelectSeq(think_buffer,
              LAMBDA rec : /\ rec.think_type = "reaction"
                           /\ rec.round = r
                           /\ rec.sangdae =
                                 JStr(generate_code(resident_ids[q], r, q, "r")))

RoundThinks(r, ty) ==
    SelectSeq(think_buffer,
              LAMBDA rec : rec.think_type = ty /\ rec.round = r)

(* the records of q come one from each participant of ids *)
OneFromEach(q, ids) ==
    /\ Len(q) = Cardinality(ids)
    /\ \A a \in ids : \E i \in 1..Len(q) : q[i].agent_id = a

-----------------------------------------------------------------------------
(* Privacy of the think traces (Spec) *)

(* the entries a step appends to the memory of participant a *)
Added(a) == SubSeq(timeline'[a], Len(timeline[a]) + 1, Len(timeline'[a]))

(* the thoughts the controller can make of the result of a's own call *)
OwnThoughts(a) ==
    LET out == results[a].out
    IN  {[fmt |-> "narrative", arg |-> out]}
           \cup (IF "saenggak" \in DOMAIN out
                 THEN {out.saenggak} \cup
                      (IF "ipjang" \in DOMAIN out
                       THEN {[fmt |-> "initial", ipjang |-> out.ipjang,
                              saenggak |-> out.saenggak]}
                       ELSE {})
                 ELSE {})

(* C23: throughout a run no entry of a participant's private think trace   *)
(* is added to the memory of another participant, and each participant's   *)
(* think trace only grows: a step only appends to a memory, a think entry  *)
(* it appends comes from that participant's own call, and any other entry  *)
(* is the public utterance of another participant.                         *)
C23_ThinkTracePrivate ==
    [][\A a \in Agents :
          /\ IsPrefix(timeline[a], timeline'[a])
          /\ IsPrefix(thinkTrace(timeline[a]), thinkTrace(timeline'[a]))
          /\ \A i \in 1..Len(Added(a)) :
                LET e == Added(a)[i]
                IN  IF e.type = "my_think"
                    THEN e.content \in OwnThoughts(a)
                    ELSE /\ e.type = "utterance"
                         /\ e.speaker # a
                         /\ e.content = speech.parsed.balhwa]_vars

(* two participants hold different think traces after a delivered turn *)
C23_Witness ==
    /\ pc = "turn_save" /\ round_num = 1 /\ turn = 1
    /\ thinkTrace(timeline[2]) # thinkTrace(timeline[3])
    /\ Len(thinkTrace(timeline[2])) = 3
    /\ Len(conversationHistory(timeline[2])) = 1

-----------------------------------------------------------------------------
(* Properties of one Memory object (SpecMemory) *)

StaticSlots == {"system_context", "debate_rule", "local_context", "persona"}

(* C24: Agent Memory is monotonic.  After any sequence of add_utterance,   *)
(* add_my_utterance, add_my_think and set_task every earlier timeline      *)
(* entry is still present, unchanged and in the same position, the four    *)
(* static slots have their creation values, each add appends exactly one   *)
(* entry, and set_task changes only the task slot.                         *)
C24_MemoryMonotonic ==
    [][/\ \A slot \in StaticSlots : memory'[slot] = memory[slot]
       /\ IsPrefix(memory.timeline, memory'.timeline)
       /\ memory'.timeline # memory.timeline =>
             /\ Len(memory'.timeline) = Len(memory.timeline) + 1
             /\ memory'.task = memory.task
       /\ memory'.task # memory.task =>
             memory'.timeline = memory.timeline]_vars

(* an entry of each kind was added and the task was set *)
C24_Witness ==
    /\ memory.persona = "persona_2"
    /\ memory.task = "think_task"
    /\ Len(memory.timeline) = 3
    /\ {memory.timeline[i].type : i \in 1..3} =
          {"utterance", "my_utterance", "my_think"}

-----------------------------------------------------------------------------
(* What a speaker remembers of its own turn (Spec) *)

(* C25: after a participant speaks, its own utterance is recorded in its   *)
(* own private trace, and in no conversationHistory entry of its own, so   *)
(* that the speaker's later prompts contain what it said.                  *)
C25_OwnUtteranceRemembered ==
    \A i \in 1..Len(Released) :
        LET rec == Released[i]
            own == timeline[rec.agent_id]
        IN  /\ \E k \in 1..Len(own) : /\ own[k].type # "utterance"
                                      /\ own[k].content = rec.balhwa
            /\ \A k \in 1..Len(own) :
                  own[k].type = "utterance" => own[k].speaker # rec.agent_id

-----------------------------------------------------------------------------
(* Order of the post-barrier processing (Spec) *)

ThinksOfType(ty) == SelectSeq(think_buffer, LAMBDA rec : rec.think_type = ty)

(* the i-th participant of the list without the q-th *)
CanonicalOther(q, i) == IF i < q THEN resident_ids[i] ELSE resident_ids[i + 1]

(* record rec is the one of participant a with turn number n *)
IsRecordOf(rec, a, n) ==
    /\ rec.agent_id = a
    /\ rec.turn = n
    /\ rec.code = generate_code(a, rec.round, n, "t")

(* the think records of participant a that are also written to its memory *)
Remembered(a) ==
    SelectSeq(think_buffer,
              LAMBDA rec : rec.agent_id = a /\ rec.think_type # "final")

(* the thought held by an entry of a think trace *)
ThoughtOf(e) ==
    IF "fmt" \notin DOMAIN e.content THEN e.content
    ELSE IF e.content.fmt = "narrative" THEN e.content.arg
    ELSE e.content.saenggak

(* C26: for a fixed participant list the sequence of think records a       *)
(* parallel phase produces (participant, turn number, code) and the order  *)
(* of the entries appended to each memory are the same for every           *)
(* completion order of the phase's workers: the records follow the         *)
(* participant list, and each think trace follows its owner's records.     *)
(* The steps of the workers write neither the log nor a memory: the order  *)
(* is looked at in the states the controller thread has stepped to.        *)
C26_PostBarrierOrder ==
    pc \notin WaitPcs =>
    /\ \A ty \in {"narrative", "initial", "final"} :
          LET recs == ThinksOfType(ty)
          IN  \A i \in 1..Len(recs) : IsRecordOf(recs[i], resident_ids[i], i)
    /\ \A r \in 1..NRounds :
          LET reactions == RoundThinks(r, "reaction")
              reflections == RoundThinks(r, "reflection")
          IN  /\ \A j \in 1..Len(reactions) :
                    LET q == ((j - 1) \div (NAgents - 1)) + 1
                        i == ((j - 1) % (NAgents - 1)) + 1
                    IN  IsRecordOf(reactions[j], CanonicalOther(q, i), j)
              /\ \A i \in 1..Len(reflections) :
                    IsRecordOf(reflections[i], resident_ids[i],
                               NAgents * (NAgents - 1) + 1 + i)
    /\ \A a \in Agents :
          LET trace == thinkTrace(timeline[a])
              records == Remembered(a)
          IN  /\ Len(trace) = Len(records)
              /\ \A k \in 1..Len(trace) :
                    ThoughtOf(trace[k]) = records[k].saenggak

(* the reactions of a turn of round 2 are being stored after the records  *)
(* of round 1, whose reflection workers ended differently: the call of    *)
(* the first participant exhausted its retries, that of the last returned  *)
(* a text                                                                  *)
C26_Witness ==
    /\ pc = "react_store" /\ round_num = 2 /\ idx = 2
    /\ Len(RoundThinks(1, "reflection")) = NAgents
    /\ RoundThinks(1, "reflection")[1].saenggak = NoResponseText
    /\ RoundThinks(1, "reflection")[NAgents].saenggak # NoResponseText

-----------------------------------------------------------------------------
(* Memory accesses during a parallel phase (Spec) *)

(* the pool workers that have not returned yet *)
WorkersInFlight == {a \in Agents : worker[a].st \in {"queued", "running"}}

(* the worker that enters Agent.respond in this step, if any *)
Entering == {a \in Agents : worker[a].st = "queued" /\ worker'[a].st = "running"}

SameTraces(P) ==
    /\ conversationHistory(timeline'[P]) = conversationHistory(timeline[P])
    /\ thinkTrace(timeline'[P]) = thinkTrace(timeline[P])

(* C27: while a worker of a parallel phase is in flight, no step writes    *)
(* the conversation history or the think trace of any participant; a       *)
(* worker that enters respond reads the memory of its own participant and  *)
(* sets the task of that memory alone; and the memory a running worker     *)
(* built its prompt from is still the memory of its participant.           *)
C27_NoWriteWhileInFlight ==
    /\ [](\A a \in Agents :
            worker[a].st = "running" => worker[a].seen = timeline[a])
    /\ [][WorkersInFlight # {} =>
            /\ \A P \in Agents : SameTraces(P) /\ timeline'[P] = timeline[P]
            /\ \A a \in Entering :
                  /\ worker'[a].seen = timeline[a]
                  /\ \A b \in Agents \ {a} : task'[b] = task[b]
            /\ task' # task => Entering # {}]_vars

(* in a reaction phase of round 2 one worker has returned while another    *)
(* one, which read a memory that holds utterances and thoughts, is still   *)
(* waiting for the provider after a failed attempt                         *)
C27_Witness ==
    /\ pc = "react_wait" /\ round_num = 2
    /\ \E a, b \in Agents :
          /\ worker[a].st = "finished"
          /\ worker[b].st = "running"
          /\ worker[b].g.attempt >= 1
          /\ Len(thinkTrace(worker[b].seen)) >= 2
          /\ Len(conversationHistory(worker[b].seen)) >= 2

-----------------------------------------------------------------------------
(* The repair loop of parse_json (SpecParse) *)

(* the text decodes after the extraction of its JSON part *)
Decodes(text) ==
    text # NoneResponse /\ json_loads(extract_json_from_text(text)).ok

(* a JSON document in a fence, as a model returns a repaired text *)
FencedDocument(text) ==
    /\ text # NoneResponse
    /\ text.pre = "" /\ text.open \in {"FENCE", "FENCEjson"}
    /\ text.close = "FENCE" /\ text.body.t # "garbage"

(* the attempts of the loop whose repaired text decodes *)
GoodFixes == {k \in 1..ps.max_retries : Decodes(ps.fixes[k])}

FirstGoodFix == CHOOSE k \in GoodFixes : \A j \in GoodFixes : k <= j

(* the loop is entered only after the direct decode failed, makes at most  *)
(* max_retries calls, decodes each repaired text after the extraction of   *)
(* its JSON part, and returns at the first one that decodes                *)
RepairLoopBounded ==
    ps.fn = "parse_json" =>
        /\ Len(ps.calls) = ps.result.repairs
        /\ ps.result.repairs <= ps.max_retries
        /\ ps.result.repairs > 0 => ~Decodes(ps.input)
        /\ Decodes(ps.input) =>
              ps.result = Parsed(json_loads(extract_json_from_text(ps.input)).v, 0)
        /\ ps.input # NoneResponse /\ ~Decodes(ps.input) =>
              IF GoodFixes = {}
              THEN ps.result = Failure("CognitionError", ps.max_retries)
              ELSE /\ ps.result.status = "returned"
                   /\ ps.result.repairs = FirstGoodFix
                   /\ ps.result.out =
                        json_loads(extract_json_from_text(ps.fixes[FirstGoodFix])).v
                   /\ \A k \in 1..ps.max_retries :
                         FencedDocument(ps.fixes[k]) =>
                            /\ ps.result.repairs <= k
                            /\ ps.result.out.t # "garbage"

(* C28 (as stated): every repair call of parse_json sends the whole        *)
(* original raw text.                                                      *)
C28_RepairSendsOriginal ==
    RepairLoopBounded
    /\ (ps.fn = "parse_json" =>
          \A k \in 1..Len(ps.calls) :
              ps.calls[k].text = ps.input /\ ps.calls[k].chars = ps.chars)

(* C28 (amended): the repair loop of parse_json is entered only after the  *)
(* direct decode fails, makes at most max_retries repair calls, re-runs    *)
(* the extraction and the decode on each repaired text and returns at the  *)
(* first one that decodes; every repair call sends the first 3000          *)
(* characters of the original raw text, which is the whole text only when  *)
(* the text is no longer than that.                                        *)
C28_RepairSendsPrefix ==
    RepairLoopBounded
    /\ (ps.fn = "parse_json" =>
          \A k \in 1..Len(ps.calls) :
              /\ ps.calls[k].text = ps.input
              /\ ps.calls[k].chars <= TextLimit
              /\ ps.calls[k].chars = ps.chars <=> ps.chars <= TextLimit
              /\ ps.calls[k].chars # ps.chars => ps.calls[k].chars = TextLimit)

(* a text longer than the limit did not decode, the first repaired text    *)
(* did not decode either and the second one, a fenced document, did        *)
C28_Witness ==
    /\ ps.fn = "parse_json"
    /\ ps.chars > TextLimit
    /\ ps.max_retries = MaxRepairs
    /\ ps.result.status = "returned"
    /\ ps.result.repairs = 2
    /\ ~Decodes(ps.fixes[1])
    /\ FencedDocument(ps.fixes[2])

-----------------------------------------------------------------------------
(* Exhausted repairs and invalid enumeration values (SpecParse) *)

RepairCapable == {"parse_json", "generate_thinking"}

(* C29: when the direct decode and every one of the max_retries repair     *)
(* attempts fail, parse_json, and generate_thinking through it, returns a  *)
(* default result that carries the raw text instead of raising.            *)
C29_ExhaustedRepairDegrades ==
    /\ ps.fn \in RepairCapable
    /\ ps.input # NoneResponse
    /\ ~Decodes(ps.input)
    /\ GoodFixes = {}
    => /\ ps.result.status = "returned"
       /\ \E f \in DOMAIN ps.result.out : ps.result.out[f] = Raw(ps.input)

(* what the direct decode of the input gives *)
DirectlyDecoded == json_loads(extract_json_from_text(ps.input)).v

(* a reaction holds a feeling or an agree level outside its closed set *)
InvalidReaction(r) ==
    \/ r.o["my_feeling"] \notin VALID_FEELINGS
    \/ r.o["agree_level"] \notin {JInt(n) : n \in VALID_AGREE_LEVELS}

(* the decoded object holds a value outside the closed set of its          *)
(* enumeration                                                             *)
InvalidEnum(data) ==
    /\ data.t = "object"
    /\ \/ /\ data.o["overall_stance"] # Absent
          /\ data.o["overall_stance"] \notin VALID_STANCES
       \/ /\ data.o["reactions"] # Absent
          /\ \E i \in 1..Len(data.o["reactions"].l) :
                InvalidReaction(data.o["reactions"].l[i])

(* the stances a recorded opinion may hold: the four of the task, written  *)
(* without spaces, and the stance of the default                           *)
RecordedStances == {RemoveSpaces(v) : v \in ValidStances} \cup {Mugwansim}

(* C30: a decoded value outside the closed set of its enumeration is a     *)
(* parse failure that goes through the repair loop, and is never coerced   *)
(* or accepted into the result: generate_thinking makes a repair call for  *)
(* it when it may make one and returns no result made of it, and the       *)
(* stance parse_initial_opinion returns is one of the closed set.          *)
C30_InvalidEnumRepaired ==
    /\ ps.fn = "generate_thinking" /\ Decodes(ps.input)
          /\ InvalidEnum(DirectlyDecoded)
       => /\ ps.max_retries > 0 => ps.result.repairs > 0
          /\ ps.result.status = "returned" => ps.result.repairs > 0
    /\ ps.fn = "parse_initial_opinion" /\ ps.result.status = "returned"
       => ps.result.out.ipjang \in RecordedStances

-----------------------------------------------------------------------------
(* Provider clients (SpecClient) *)

(* the client objects that calls of _get_client of provider p returned *)
ReturnedClients(p) ==
    {client.thread[t].ret : t \in {u \in Threads :
        client.thread[u].pc = "returned" /\ client.thread[u].provider = p}}

(* C31: each provider client is constructed at most once in the process   *)
(* and every call of _get_client returns that one object, also when the    *)
(* first calls are made by several threads at the same time.               *)
C31_ClientConstructedOnce ==
    \A p \in Providers :
        /\ client.made[p] <= 1
        /\ Cardinality(ReturnedClients(p)) <= 1

-----------------------------------------------------------------------------
(* The cache of the caching provider (SpecCache) *)

(* this step is a call of create_cache or refresh_cache *)
CreateStep == cache'.n = cache.n + 1 /\ cache'.op \in {"create_cache", "refresh_cache"}

(* the provider calls this step made *)
StepCalls == cache'.calls

(* C32: create_cache / refresh_cache with content whose hash equals the    *)
(* recorded hash is a no-op: it returns False, calls the provider not at   *)
(* all and leaves handle and hash as they are.  With content of another    *)
(* hash the old handle, if one is held, is deleted before the new cache is *)
(* created; when the creation succeeds the handle is a new one and the     *)
(* recorded hash is that of the new content, when it fails no handle and   *)
(* no hash are held.  A handle is held if and only if a hash is recorded.  *)
(* Content counts as changed when its hash differs from the recorded one.  *)
C32_CacheFollowsHash ==
    /\ [](cache.cache_name # NoName <=> cache.cached_content_hash # NoHash)
    /\ [][CreateStep =>
            IF cache.cached_content_hash = hash(cache'.content)
            THEN /\ cache'.ret = FALSE
                 /\ StepCalls = <<>>
                 /\ cache'.cache_name = cache.cache_name
                 /\ cache'.cached_content_hash = cache.cached_content_hash
                 /\ cache'.live = cache.live
            ELSE /\ StepCalls =
                      (IF cache.cache_name # NoName
                       THEN <<DeleteCall(cache.cache_name)>> ELSE <<>>)
                         \o <<CreateCall(cache'.content)>>
                 /\ IF cache'.ret
                    THEN /\ cache'.cache_name \notin {NoName, cache.cache_name}
                         /\ cache'.cache_name \in cache'.live \ cache.live
                         /\ cache'.cached_content_hash = hash(cache'.content)
                    ELSE /\ cache'.cache_name = NoName
                         /\ cache'.cached_content_hash = NoHash]_vars

(* two caches were created, a call with content of the recorded hash      *)
(* changed nothing, and the last call deleted the second cache for content *)
(* of another hash and failed to create the new one                        *)
C32_Witness ==
    /\ cache.n = MaxOps
    /\ cache.issued = 2
    /\ cache.ret = FALSE
    /\ cache.calls = <<DeleteCall(2), CreateCall(cache.content)>>
    /\ cache.cache_name = NoName

-----------------------------------------------------------------------------
(* Backoff delays of the gateway (SpecGateway) *)

(* the base of the delays: 1 in chat_with_retry, retry_delay in call_llm *)
BaseDelay == IF gw.fn = "call_llm" THEN RetryDelay ELSE 1

(* C33: the delay taken after failed attempt k (counted from 0) is         *)
(* base * 2^k, so each delay is twice the one before; a delay is taken     *)
(* after every failed attempt that another attempt follows, and none       *)
(* after the last permitted attempt nor after the attempt that ended the   *)
(* invocation.                                                             *)
C33_BackoffDoubles ==
    gw.fn # "idle" =>
        /\ \A k \in 0..(Len(gw.sleeps) - 1) :
              gw.sleeps[k + 1] = BaseDelay * 2 ^ k
        /\ \A i \in 1..(Len(gw.sleeps) - 1) :
              gw.sleeps[i + 1] = 2 * gw.sleeps[i] /\ gw.sleeps[i + 1] > gw.sleeps[i]
        /\ Len(gw.sleeps) <= gw.max_retries - 1
        /\ IF gw.status = "running"
           THEN Len(gw.sleeps) = Len(gw.tries)
           ELSE Len(gw.sleeps) = Len(gw.tries) - 1

(* every attempt of a budget of four has failed: three delays were taken,  *)
(* of 1, 2 and 4, and none after the fourth attempt                        *)
C33_Witness ==
    /\ gw.fn = "chat_with_retry"
    /\ gw.max_retries = 4
    /\ Len(gw.tries) = 4
    /\ gw.status = "returned" /\ gw.value = NoneResult
    /\ gw.sleeps = <<1, 2, 4>>

-----------------------------------------------------------------------------
(* The code a reaction refers to (Spec) *)

(* the speaking turn in which the reaction with turn number n was made *)
SpeakingTurnOf(n) == ((n - 1) \div (NAgents - 1)) + 1

(* C34: every reaction record logged for a speaking turn carries as its    *)
(* referenced code the code log_debate returned for the utterance spoken   *)
(* in that turn, whatever the output of the reacting model was.            *)
C34_ReactionRefersToUtterance ==
    \A i \in 1..Len(think_buffer) :
        LET rec == think_buffer[i]
        IN  rec.think_type = "reaction" =>
               rec.sangdae =
                  JStr(RoundRecords(rec.round)[SpeakingTurnOf(rec.turn)].code)

-----------------------------------------------------------------------------
(* Failed speaking attempts of the batch-mode run (SpecBatch) *)

(* this step is a speaking attempt whose response did not parse *)
FailedSpeakStep ==
    /\ lv.pc = "speak"
    /\ Len(lv'.calls) = Len(lv.calls) + 1
    /\ ~lv'.calls[Len(lv'.calls)].list

(* C35: in batch mode a speaking attempt whose response fails to parse     *)
(* changes neither the cumulative timeline nor the utterance and think     *)
(* buffers (nor the files), and every attempt of a round is issued with    *)
(* the prompt of the round's first attempt.                                *)
C35_FailedAttemptFrame ==
    /\ [](\A i \in 1..Len(lv.calls) : lv.calls[i].prompt = lv.calls[1].prompt)
    /\ [][FailedSpeakStep =>
            /\ lv'.timeline = lv.timeline
            /\ debate_buffer' = debate_buffer
            /\ think_buffer' = think_buffer
            /\ debate_file' = debate_file /\ think_file' = think_file
            /\ lv'.pc = "speak" =>
                  prompt_data(speaking_task)' = prompt_data(speaking_task)]_vars

(* the third attempt of round 2 follows two attempts that failed to parse, *)
(* with the opinions and the speeches of round 1 in the timeline and the   *)
(* utterances of round 1 in the buffer                                     *)
C35_Witness ==
    /\ lv.pc # "speak" /\ lv.round_num = 2
    /\ Len(lv.calls) = SpeechMaxRetries
    /\ ~lv.calls[1].list /\ ~lv.calls[2].list
    /\ lv.calls[SpeechMaxRetries].list
    /\ Len(RoundRecords(1)) = NAgents
    /\ lv.calls[1].prompt.timeline # <<>>

-----------------------------------------------------------------------------
(* The speakers of a batch-mode round (SpecBatch) *)

(* the resident_id of every participant of the run *)
ParticipantIds == {Rid(a).s : a \in Agents}

(* C36: in batch mode every utterance record logged for a round belongs to *)
(* a participant of the run, and each participant has at most one          *)
(* utterance record per round, whatever array the model returned.          *)
C36_OneUtterancePerParticipant ==
    lv.pc # "idle" =>
       \A r \in 1..NRounds :
          LET recs == RoundRecords(r)
          IN  /\ \A i \in 1..Len(recs) : recs[i].agent_id \in ParticipantIds
              /\ \A i, j \in 1..Len(recs) :
                    recs[i].agent_id = recs[j].agent_id => i = j

-----------------------------------------------------------------------------
(* The stances of the per-participant table (Spec, SpecBatch) *)

(* the think records of kind ty logged for the participant with id aid *)
StanceRecords(ty, aid) ==
    SelectSeq(think_buffer,
              LAMBDA rec : rec.think_type = ty /\ rec.agent_id = aid)

(* the table agrees with the think records, aid[a] being the id under      *)
(* which the controller logs participant a                                 *)
TableMatches(aid) ==
    \A a \in Agents :
        /\ agent_list.call \in {"initial", "final"} =>
              LET recs == StanceRecords("initial", aid[a])
              IN  \A i \in 1..Len(recs) :
                     agent_list.rows[a].initial_stance = recs[i].sangdae
        /\ agent_list.call = "final" =>
              LET recs == StanceRecords("final", aid[a])
              IN  \A i \in 1..Len(recs) :
                     agent_list.rows[a].final_stance = recs[i].sangdae

(* C37: after each write of the per-participant table, every participant's *)
(* initial stance in the table, and the final stance once the final        *)
(* opinions are formed, equals the stance stored in that participant's     *)
(* initial (final) think record, defaulted participants included (batch    *)
(* mode, where the records carry the resident id).                         *)
C37_TableMatchesThinkRecords ==
    TableMatches([a \in Agents |-> ResidentId(a)])

=============================================================================
